---- MODULE Spec2Model ----
(***************************************************************************)
(* AgentBouncr governance core: policy engine, condition evaluator, audit  *)
(* hash chain, kill switch and the evaluate pipeline of                    *)
(* GovernanceMiddleware, modelled as state machines.                       *)
(*                                                                         *)
(*   SpecPolicy  the policy engine as a pure function of (request, policy) *)
(*   Spec        the orchestrator: concurrent evaluate calls, kill switch, *)
(*               audit log, approval requests                              *)
(***************************************************************************)
EXTENDS Integers, Sequences, FiniteSets, TLC

VARIABLES
    pePolicy,     \* policy handed to PolicyEngine.evaluate
    peRequest,    \* request handed to PolicyEngine.evaluate
    peResult,     \* EvaluateResult of the last PolicyEngine.evaluate
    pePrev,       \* (policy, result) of the evaluation before the last edit of the rules
    peOp,         \* last step of the policy-engine harness
    peInserted,   \* the rule added by the last insertion
    cfg,          \* what the DatabaseAdapter given to the constructor offers
    killSwitch,   \* KillSwitchManager: global state and tenantState, by scope
    inlinePolicy, \* GovernanceMiddleware.policy (NullPolicy: null)
    dbPolicy,     \* the row getActivePolicy finds in the policies table
    calls,        \* the evaluate calls: position and locals of each
    audit,        \* the audit_events table, in id order
    approvals,    \* the approval_requests table, in insertion order
    events,       \* the events handed to emitEvent, in order
    now,          \* the clock
    sql,          \* the last raw statement run against audit_events
    tampered,     \* id of the record whose stored hash was replaced (0: none)
    ksOps,        \* number of kill-switch calls that changed the state so far
    ksLast,       \* the last call made to the KillSwitchManager
    approvalOps,  \* resolveApproval / getApprovalRequest / listApprovalRequests calls
    bus,          \* a GovernanceEventEmitter: listeners, nextTick queue, what has run
    tenancy,      \* forTenant: whether the adapter scopes, the handles' own policy
    store         \* the policies and policy_versions tables, and the writes made

peVars == <<pePolicy, peRequest, peResult, pePrev, peOp, peInserted>>
orchVars == <<cfg, killSwitch, inlinePolicy, dbPolicy, calls, audit, approvals,
              events, now, sql, tampered, ksOps, ksLast, approvalOps, bus, tenancy, store>>
vars == <<peVars, orchVars>>

-----------------------------------------------------------------------------
(* Bounds *)

MaxRules == 2          \* rules of a policy drawn initially
MaxCalls == 2          \* evaluate calls, possibly in flight together
MaxTime == 1           \* clock ticks
MaxKsOps == 2          \* kill-switch activations and resets that take effect
MaxSwitches == 3       \* the same, for the kill switch on its own
ApprovalTimeoutSeconds == 1   \* the approvalTimeoutSeconds option
MaxOps == 2            \* approval reads and resolutions, possibly in flight together
MaxEmits == 2          \* emissions on the event emitter
MaxSubs == 3           \* on, off and removeAllListeners calls

-----------------------------------------------------------------------------
(* JavaScript values: undefined, numbers, strings                          *)

Undefined == [t |-> "undefined", v |-> 0]
Num(n) == [t |-> "number", v |-> n]
Str(s) == [t |-> "string", v |-> 0, s |-> s]
Arr(xs) == [t |-> "array", v |-> 0, xs |-> xs]

\* a === b on the modelled values (arrays compare by reference: never equal here)
StrictEquals(a, b) ==
    /\ a.t = b.t
    /\ CASE a.t = "undefined" -> TRUE
         [] a.t = "number" -> a.v = b.v
         [] a.t = "string" -> a.s = b.s
         [] OTHER -> FALSE

\* strings are sequences of characters
IsPrefix(p, s) == Len(p) <= Len(s) /\ SubSeq(s, 1, Len(p)) = p
IsSuffix(p, s) == Len(p) <= Len(s) /\ SubSeq(s, Len(s) - Len(p) + 1, Len(s)) = p
Includes(s, p) == \E i \in 0..(Len(s) - Len(p)) : SubSeq(s, i + 1, i + Len(p)) = p

\* params[paramName] of a params object (a sequence of <<key, value>>)
RECURSIVE Lookup(_, _)
Lookup(kv, name) ==
    IF kv = <<>> THEN Undefined
    ELSE IF kv[Len(kv)][1] = name THEN kv[Len(kv)][2]
    ELSE Lookup(SubSeq(kv, 1, Len(kv) - 1), name)

NoParams == [defined |-> FALSE, kv |-> <<>>]
Params(kv) == [defined |-> TRUE, kv |-> kv]

-----------------------------------------------------------------------------
(* Condition evaluator                                                     *)

MaxRegexLen == 200

evaluateOperator(operator, paramValue, operand) ==
    CASE operator = "equals" -> StrictEquals(paramValue, operand)
      [] operator = "notEquals" ->
            IF paramValue.t = "undefined" THEN FALSE
            ELSE ~StrictEquals(paramValue, operand)
      [] operator = "startsWith" ->
            paramValue.t = "string" /\ operand.t = "string" /\ IsPrefix(operand.s, paramValue.s)
      [] operator = "endsWith" ->
            paramValue.t = "string" /\ operand.t = "string" /\ IsSuffix(operand.s, paramValue.s)
      [] operator = "contains" ->
            paramValue.t = "string" /\ operand.t = "string" /\ Includes(paramValue.s, operand.s)
      [] operator = "gt" ->
            paramValue.t = "number" /\ operand.t = "number" /\ paramValue.v > operand.v
      [] operator = "lt" ->
            paramValue.t = "number" /\ operand.t = "number" /\ paramValue.v < operand.v
      [] operator = "gte" ->
            paramValue.t = "number" /\ operand.t = "number" /\ paramValue.v >= operand.v
      [] operator = "lte" ->
            paramValue.t = "number" /\ operand.t = "number" /\ paramValue.v <= operand.v
      [] operator = "in" ->
            operand.t = "array" /\ \E i \in 1..Len(operand.xs) : StrictEquals(operand.xs[i], paramValue)
      [] operator = "matches" ->
            \* operands here are literal patterns: the regex test is a substring test
            /\ paramValue.t = "string" /\ operand.t = "string"
            /\ Len(operand.s) <= MaxRegexLen
            /\ Includes(paramValue.s, operand.s)
      [] OTHER -> FALSE

\* A condition is a sequence of entries [param, nullOps, ops]; ops is a sequence
\* of <<operator, operand>>. nullOps marks an operator map that is null, on
\* which Object.entries throws. The result is "true", "false" or "throw".
RECURSIVE evalOps(_, _)
evalOps(ops, paramValue) ==
    IF ops = <<>> THEN TRUE
    ELSE IF ~evaluateOperator(ops[1][1], paramValue, ops[1][2]) THEN FALSE
    ELSE evalOps(Tail(ops), paramValue)

RECURSIVE evalEntries(_, _)
evalEntries(entries, kv) ==
    IF entries = <<>> THEN "true"
    ELSE IF entries[1].nullOps THEN "throw"
    ELSE IF ~evalOps(entries[1].ops, Lookup(kv, entries[1].param)) THEN "false"
    ELSE evalEntries(Tail(entries), kv)

NoCondition == [defined |-> FALSE, entries |-> <<>>]
Condition(entries) == [defined |-> TRUE, entries |-> entries]

evaluateCondition(condition, params) ==
    IF ~condition.defined \/ Len(condition.entries) = 0 THEN "true"
    ELSE IF ~params.defined THEN "false"
    ELSE evalEntries(condition.entries, params.kv)

-----------------------------------------------------------------------------
(* Policy engine                                                           *)

SPECIFICITY_WILDCARD == 0
SPECIFICITY_TOOL_ONLY == 1
SPECIFICITY_TOOL_CONDITION == 2

NoString == "<undefined>"      \* an absent optional string (name, reason)

Rule(name, tool, effect, condition, reason, requireApproval) ==
    [name |-> name, tool |-> tool, effect |-> effect, condition |-> condition,
     reason |-> reason, requireApproval |-> requireApproval]

NullPolicy == [isNull |-> TRUE, name |-> "", rulesOk |-> FALSE, rules |-> <<>>]
\* rulesOk = FALSE: the rules field is not iterable (null)
Policy(name, rules) == [isNull |-> FALSE, name |-> name, rulesOk |-> TRUE, rules |-> rules]
CorruptPolicy(name) == [isNull |-> FALSE, name |-> name, rulesOk |-> FALSE, rules |-> <<>>]

computeSpecificity(rule) ==
    IF rule.tool = "*" THEN SPECIFICITY_WILDCARD
    ELSE IF /\ rule.condition.defined
            /\ Len(rule.condition.entries) > 0
            /\ \E i \in 1..Len(rule.condition.entries) :
                    /\ ~rule.condition.entries[i].nullOps
                    /\ Len(rule.condition.entries[i].ops) > 0
         THEN SPECIFICITY_TOOL_CONDITION
    ELSE SPECIFICITY_TOOL_ONLY

\* [threw, matches]: the traversal stops at the first rule whose condition throws
RECURSIVE findFrom(_, _, _, _)
findFrom(policy, request, i, acc) ==
    IF i > Len(policy.rules) THEN [threw |-> FALSE, matches |-> acc]
    ELSE LET rule == policy.rules[i]
             toolMatches == rule.tool = request.tool \/ rule.tool = "*"
         IN IF ~toolMatches THEN findFrom(policy, request, i + 1, acc)
            ELSE LET c == evaluateCondition(rule.condition, request.params)
                 IN IF c = "throw" THEN [threw |-> TRUE, matches |-> <<>>]
                    ELSE IF c = "false" THEN findFrom(policy, request, i + 1, acc)
                    ELSE findFrom(policy, request, i + 1,
                                  Append(acc, [rule |-> rule, policyName |-> policy.name,
                                               specificity |-> computeSpecificity(rule)]))

findMatchingRules(policy, request) ==
    IF ~policy.rulesOk THEN [threw |-> TRUE, matches |-> <<>>]
    ELSE findFrom(policy, request, 1, <<>>)

\* Faulty comparators, against which the ordering properties are tested:
\* allow before deny at equal specificity, and lowest specificity first
compareAllowFirst(a, b) ==
    IF a.specificity # b.specificity THEN b.specificity - a.specificity
    ELSE IF a.rule.effect # b.rule.effect THEN (IF a.rule.effect = "deny" THEN 1 ELSE -1)
    ELSE 0

compareAscending(a, b) ==
    IF a.specificity # b.specificity THEN a.specificity - b.specificity
    ELSE IF a.rule.effect # b.rule.effect THEN (IF a.rule.effect = "deny" THEN -1 ELSE 1)
    ELSE 0

\* the comparator sortByPriority hands to Array.prototype.sort
comparePriority(a, b) ==
    IF a.specificity # b.specificity THEN b.specificity - a.specificity
    ELSE IF a.rule.effect # b.rule.effect THEN (IF a.rule.effect = "deny" THEN -1 ELSE 1)
    ELSE 0

\* Array.prototype.sort is stable: an element goes behind every element it does
\* not strictly precede
RECURSIVE insertSorted(_, _)
insertSorted(sorted, m) ==
    IF sorted = <<>> THEN <<m>>
    ELSE IF comparePriority(m, Head(sorted)) < 0 THEN <<m>> \o sorted
    ELSE <<Head(sorted)>> \o insertSorted(Tail(sorted), m)

RECURSIVE sortFrom(_, _, _)
sortFrom(matches, i, acc) ==
    IF i > Len(matches) THEN acc
    ELSE sortFrom(matches, i + 1, insertSorted(acc, matches[i]))

sortByPriority(matches) == sortFrom(matches, 1, <<>>)

AppliedRule(m) ==
    [policyName |-> m.policyName, ruleName |-> m.rule.name,
     effect |-> m.rule.effect, requireApproval |-> m.rule.requireApproval]

Deny(traceId, reason) ==
    [allowed |-> FALSE, traceId |-> traceId, reason |-> reason, appliedRules |-> <<>>]

\* Faulty engine, against which the fail-secure floor is tested: the null-policy
\* and catch branches let the call through
engineCatchAllows(request, policy) ==
    LET traceId == request.traceId
    IN IF policy.isNull THEN
            [allowed |-> TRUE, traceId |-> traceId, reason |-> NoString, appliedRules |-> <<>>]
       ELSE LET found == findMatchingRules(policy, request)
            IN IF found.threw THEN
                    [allowed |-> TRUE, traceId |-> traceId, reason |-> NoString,
                     appliedRules |-> <<>>]
               ELSE IF Len(found.matches) = 0 THEN
                    Deny(traceId, "No matching rule for tool '" \o request.tool
                                  \o "' in policy '" \o policy.name \o "'")
               ELSE LET sorted == sortByPriority(found.matches)
                        winner == sorted[1]
                    IN [allowed |-> winner.rule.effect = "allow", traceId |-> traceId,
                        reason |-> winner.rule.reason,
                        appliedRules |-> [i \in 1..Len(sorted) |-> AppliedRule(sorted[i])]]

\* PolicyEngine.evaluate
engineEvaluate(request, policy) ==
    LET traceId == request.traceId
    IN IF policy.isNull THEN
            Deny(traceId, "No policy found for agent '" \o request.agentId \o "'")
       ELSE LET found == findMatchingRules(policy, request)
            IN IF found.threw THEN Deny(traceId, "Policy evaluation failed: TypeError")
               ELSE IF Len(found.matches) = 0 THEN
                    Deny(traceId, "No matching rule for tool '" \o request.tool
                                  \o "' in policy '" \o policy.name \o "'")
               ELSE LET sorted == sortByPriority(found.matches)
                        winner == sorted[1]
                    IN [allowed |-> winner.rule.effect = "allow", traceId |-> traceId,
                        reason |-> winner.rule.reason,
                        appliedRules |-> [i \in 1..Len(sorted) |-> AppliedRule(sorted[i])]]

-----------------------------------------------------------------------------
(* Policy-engine harness: rules and requests the evaluations are drawn from *)

EtcPrefix == <<"/", "e", "t", "c", "/">>
EtcPasswd == <<"/", "e", "t", "c", "/", "p">>
TmpX == <<"/", "t", "m", "p">>

CondEtc == Condition(<<[param |-> "path", nullOps |-> FALSE,
                        ops |-> << <<"startsWith", Str(EtcPrefix)>> >>]>>)
CondNoOps == Condition(<<[param |-> "path", nullOps |-> FALSE, ops |-> <<>>]>>)
CondNotTmp == Condition(<<[param |-> "path", nullOps |-> FALSE,
                           ops |-> << <<"notEquals", Str(TmpX)>>, <<"contains", Str(<<"e">>)>> >>]>>)
CondNullOps == Condition(<<[param |-> "path", nullOps |-> TRUE, ops |-> <<>>]>>)

WellFormedRules ==
    { Rule("allow-x", "x", "allow", NoCondition, NoString, FALSE),
      Rule("deny-x", "x", "deny", NoCondition, "No writes", FALSE),
      Rule("wild-allow", "*", "allow", NoCondition, NoString, FALSE),
      Rule("wild-deny", "*", "deny", NoCondition, "Default deny", FALSE),
      Rule("deny-etc", "x", "deny", CondEtc, "Forbidden path", FALSE),
      Rule("allow-cond", "x", "allow", CondNotTmp, "Path ok", FALSE),
      Rule("approve-x", "x", "allow", NoCondition, "Needs approval", TRUE),
      Rule("allow-noops", "x", "allow", CondNoOps, "No operators", FALSE) }

\* a rule whose operator map is null: evaluating its condition throws
MalformedRules == { Rule("broken", "x", "allow", CondNullOps, NoString, FALSE) }

RuleSet == WellFormedRules \cup MalformedRules

Request(tool, params) ==
    [agentId |-> "agent-1", tool |-> tool, params |-> params, traceId |-> "trace-1"]

Requests ==
    { Request("x", Params(<< <<"path", Str(EtcPasswd)>> >>)),
      Request("x", Params(<< <<"path", Str(TmpX)>> >>)),
      Request("x", NoParams),
      Request("z", NoParams) }

RuleSeqs(n) == UNION { [1..k -> RuleSet] : k \in 1..n }

NoResult == [allowed |-> FALSE, traceId |-> "", reason |-> NoString, appliedRules |-> <<>>]
NoPrev == [policy |-> NullPolicy, result |-> NoResult]
NoRule == Rule("", "", "deny", NoCondition, NoString, FALSE)

InitPolicyEngine ==
    /\ pePolicy \in {NullPolicy, CorruptPolicy("p")} \cup { Policy("p", rs) : rs \in RuleSeqs(MaxRules) }
    /\ peRequest \in Requests
    /\ peResult = NoResult
    /\ pePrev = NoPrev
    /\ peOp = "init"
    /\ peInserted = NoRule

PolicyEngineIdle ==
    /\ pePolicy = NullPolicy
    /\ peRequest = Request("x", NoParams)
    /\ peResult = NoResult
    /\ pePrev = NoPrev
    /\ peOp = "init"
    /\ peInserted = NoRule

\* policyEngine.evaluate(request, policy)
PeEvaluate ==
    /\ peOp = "init"
    /\ peResult' = engineEvaluate(peRequest, pePolicy)
    /\ peOp' = "evaluate"
    /\ UNCHANGED <<pePolicy, peRequest, pePrev, peInserted>>

RulePermutations(n) == { f \in [1..n -> 1..n] : \A i, j \in 1..n : i # j => f[i] # f[j] }

\* the same rules in another order, evaluated again
PePermute ==
    /\ peOp = "evaluate"
    /\ pePolicy.rulesOk
    /\ \E f \in RulePermutations(Len(pePolicy.rules)) :
          LET rules == [i \in 1..Len(pePolicy.rules) |-> pePolicy.rules[f[i]]]
              policy == [pePolicy EXCEPT !.rules = rules]
          IN /\ rules # pePolicy.rules
             /\ pePrev' = [policy |-> pePolicy, result |-> peResult]
             /\ pePolicy' = policy
             /\ peResult' = engineEvaluate(peRequest, policy)
    /\ peOp' = "permute"
    /\ UNCHANGED <<peRequest, peInserted>>

InsertAt(s, i, e) == SubSeq(s, 1, i - 1) \o <<e>> \o SubSeq(s, i, Len(s))

\* one more rule at any position, evaluated again
PeInsert ==
    /\ peOp = "evaluate"
    /\ pePolicy.rulesOk
    /\ \E r \in RuleSet, i \in 1..(Len(pePolicy.rules) + 1) :
          LET policy == [pePolicy EXCEPT !.rules = InsertAt(pePolicy.rules, i, r)]
          IN /\ pePrev' = [policy |-> pePolicy, result |-> peResult]
             /\ pePolicy' = policy
             /\ peInserted' = r
             /\ peResult' = engineEvaluate(peRequest, policy)
    /\ peOp' = "insert"
    /\ UNCHANGED peRequest

NextPolicyEngine == (PeEvaluate \/ PePermute \/ PeInsert) /\ UNCHANGED orchVars

-----------------------------------------------------------------------------
(* Audit hash chain                                                        *)

NullHash == <<>>                 \* previous_hash IS NULL
NullColumn == [null |-> TRUE, text |-> <<>>]
TextColumn(t) == [null |-> FALSE, text |-> t]

\* the order String.prototype.sort gives the parameter names used here
KeyOrder == <<"mode", "path">>
KeyRank(k) == CHOOSE i \in 1..Len(KeyOrder) : KeyOrder[i] = k

RECURSIVE insertKey(_, _)
insertKey(sorted, e) ==
    IF sorted = <<>> THEN <<e>>
    ELSE IF KeyRank(e[1]) < KeyRank(Head(sorted)[1]) THEN <<e>> \o sorted
    ELSE IF e[1] = Head(sorted)[1] THEN <<e>> \o Tail(sorted)
    ELSE <<Head(sorted)>> \o insertKey(Tail(sorted), e)

RECURSIVE sortKeys(_, _)
sortKeys(kv, acc) ==
    IF kv = <<>> THEN acc ELSE sortKeys(Tail(kv), insertKey(acc, Head(kv)))

\* '' for absent params, else the JSON text of the object with its keys sorted
canonicalParams(params) ==
    IF ~params.defined THEN <<>> ELSE <<"json", sortKeys(params.kv, <<>>)>>

OrEmpty(s) == IF s = NoString THEN "" ELSE s

\* SHA-256 of the JSON array of the fields: the digest is modelled by the array
\* it is taken of (no collisions)
computeAuditHash(input) ==
    << IF input.previousHash = NullHash THEN <<"GENESIS_NULL">>
       ELSE <<"CHAIN:", input.previousHash>>,
       input.traceId, input.timestamp, input.agentId, input.tool,
       canonicalParams(input.params), input.result, OrEmpty(input.reason),
       ToString(input.durationMs), OrEmpty(input.failureCategory) >>

\* a 64-hex string no record hashes to
DeadBeef == << <<"deadbeef">> >>

\* SELECT hash FROM audit_events ORDER BY id DESC LIMIT 1 (null on an empty table)
getLatestAuditHash(rows) ==
    IF rows = <<>> THEN NullHash ELSE rows[Len(rows)].hash

\* JSON.stringify(event.params) or NULL; event.reason ?? null
ParamsColumn(params) == IF params.defined THEN TextColumn(params.kv) ELSE NullColumn
StringColumn(s) == IF s = NoString THEN NullColumn ELSE TextColumn(s)
\* row.params ? JSON.parse(row.params) : undefined; row.reason ?? undefined
ParseParams(col) == IF col.null THEN NoParams ELSE Params(col.text)
ParseString(col) == IF col.null THEN NoString ELSE col.text

\* the row writeAuditEvent inserts, given the previous hash it read
auditRow(rows, event, previousHash) ==
    [id |-> Len(rows) + 1,
     trace_id |-> event.traceId, timestamp |-> event.timestamp,
     agent_id |-> event.agentId, tool |-> event.tool,
     params |-> ParamsColumn(event.params), result |-> event.result,
     reason |-> StringColumn(event.reason), duration_ms |-> event.durationMs,
     failure_category |-> StringColumn(event.failureCategory),
     previous_hash |-> previousHash,
     hash |-> computeAuditHash([event EXCEPT !.previousHash = previousHash])]

AuditEventInput(traceId, timestamp, agentId, tool, params, result, reason, failureCategory) ==
    [traceId |-> traceId, timestamp |-> timestamp, agentId |-> agentId, tool |-> tool,
     params |-> params, result |-> result, reason |-> reason, durationMs |-> 0,
     failureCategory |-> failureCategory, previousHash |-> NullHash]

expectedHash(row) ==
    computeAuditHash([traceId |-> row.trace_id, timestamp |-> row.timestamp,
                      agentId |-> row.agent_id, tool |-> row.tool,
                      params |-> ParseParams(row.params), result |-> row.result,
                      reason |-> ParseString(row.reason), durationMs |-> row.duration_ms,
                      failureCategory |-> ParseString(row.failure_category),
                      previousHash |-> row.previous_hash])

ChainReport(valid, brokenAt, total, verified) ==
    [valid |-> valid, brokenAt |-> brokenAt, totalEvents |-> total, verifiedEvents |-> verified]

\* A faulty walk that checks the links and never recomputes a hash
RECURSIVE walkLinksOnly(_, _, _)
walkLinksOnly(rows, i, previousHash) ==
    IF i > Len(rows) THEN ChainReport(TRUE, 0, Len(rows), Len(rows))
    ELSE IF rows[i].previous_hash # previousHash
         THEN ChainReport(FALSE, rows[i].id, Len(rows), i - 1)
    ELSE walkLinksOnly(rows, i + 1, rows[i].hash)

\* the loop of verifyAuditChain; i is the 1-based position, brokenAt 0 is undefined
RECURSIVE walkChain(_, _, _)
walkChain(rows, i, previousHash) ==
    IF i > Len(rows) THEN ChainReport(TRUE, 0, Len(rows), Len(rows))
    ELSE IF rows[i].previous_hash # previousHash
         THEN ChainReport(FALSE, rows[i].id, Len(rows), i - 1)
    ELSE IF rows[i].hash # expectedHash(rows[i])
         THEN ChainReport(FALSE, rows[i].id, Len(rows), i - 1)
    ELSE walkChain(rows, i + 1, rows[i].hash)

verifyAuditChain(rows) ==
    IF Len(rows) = 0 THEN ChainReport(TRUE, 0, 0, 0)
    ELSE walkChain(rows, 1, NullHash)

\* BEFORE UPDATE / BEFORE DELETE triggers on audit_events: the statement aborts
AppendOnlyUpdate == "audit_events is append-only: UPDATE not allowed"
AppendOnlyDelete == "audit_events is append-only: DELETE not allowed"

\* the same statements on a table without the triggers
updateUnguarded(rows, k, result) ==
    [rows |-> [rows EXCEPT ![k].result = result], error |-> ""]

auditUpdate(rows, k, result) ==
    [rows |-> rows, error |-> AppendOnlyUpdate]

auditDelete(rows, k) ==
    [rows |-> rows, error |-> AppendOnlyDelete]

-----------------------------------------------------------------------------
(* Kill switch                                                             *)

NoTime == -1                     \* an absent timestamp
Tenants == {"t1", "t2"}

KsInactive == [present |-> FALSE, active |-> FALSE, activatedAt |-> NoTime, reason |-> NoString]
KsActive(at, reason) == [present |-> TRUE, active |-> TRUE, activatedAt |-> at, reason |-> reason]

KillSwitchInit ==
    [globalActive |-> FALSE, globalActivatedAt |-> NoTime, globalReason |-> NoString,
     tenantState |-> [t \in Tenants |-> KsInactive]]

\* Faulty check that consults the tenant tier whatever the scope
isActiveTenantTier(ks, tenantId) ==
    \E t \in Tenants : ks.tenantState[t].present /\ ks.tenantState[t].active

\* KillSwitchManager.isActive
isActive(ks, tenantId) ==
    IF tenantId # NoString
    THEN ks.tenantState[tenantId].present /\ ks.tenantState[tenantId].active
    ELSE ks.globalActive

\* KillSwitchManager.getStatus
getStatus(ks, tenantId) ==
    IF tenantId # NoString
    THEN [active |-> ks.tenantState[tenantId].present /\ ks.tenantState[tenantId].active,
          activatedAt |-> ks.tenantState[tenantId].activatedAt,
          reason |-> ks.tenantState[tenantId].reason]
    ELSE [active |-> ks.globalActive, activatedAt |-> ks.globalActivatedAt,
          reason |-> ks.globalReason]

EventData ==
    [tool |-> NoString, reason |-> NoString, killSwitch |-> FALSE, context |-> NoString,
     approvalId |-> NoString, previousReason |-> NoString]

Event(type, traceId, agentId, tenantId, data) ==
    [type |-> type, traceId |-> traceId, agentId |-> agentId, tenantId |-> tenantId,
     data |-> data]

\* Faulty activation that does not look at the current state
activateAgain(ks, evs, reason, tenantId) ==
    IF tenantId # NoString
    THEN [ks |-> [ks EXCEPT !.tenantState[tenantId] = KsActive(now, reason)],
          events |-> Append(evs, Event("killswitch.activated", NoString, NoString, tenantId,
                                       [EventData EXCEPT !.reason = reason]))]
    ELSE [ks |-> [ks EXCEPT !.globalActive = TRUE, !.globalActivatedAt = now,
                            !.globalReason = reason],
          events |-> Append(evs, Event("killswitch.activated", NoString, NoString, NoString,
                                       [EventData EXCEPT !.reason = reason]))]

\* KillSwitchManager.activate: [ks, events] afterwards
activate(ks, evs, reason, tenantId) ==
    IF tenantId # NoString THEN
        IF ks.tenantState[tenantId].present /\ ks.tenantState[tenantId].active
        THEN [ks |-> ks, events |-> evs]
        ELSE [ks |-> [ks EXCEPT !.tenantState[tenantId] = KsActive(now, reason)],
              events |-> Append(evs, Event("killswitch.activated", NoString, NoString, tenantId,
                                           [EventData EXCEPT !.reason = reason]))]
    ELSE IF ks.globalActive THEN [ks |-> ks, events |-> evs]
    ELSE [ks |-> [ks EXCEPT !.globalActive = TRUE, !.globalActivatedAt = now,
                            !.globalReason = reason],
          events |-> Append(evs, Event("killswitch.activated", NoString, NoString, NoString,
                                       [EventData EXCEPT !.reason = reason]))]

\* Faulty reset that clears both tiers
resetEverything(ks, evs, tenantId, reason) ==
    IF ~isActive(ks, tenantId)
    THEN [ks |-> ks, events |-> evs]
    ELSE [ks |-> KillSwitchInit,
          events |-> Append(evs, Event("killswitch.deactivated", NoString, NoString, tenantId,
                                       [EventData EXCEPT !.reason = "Manual reset"]))]

\* Faulty reset that clears the state before it reads the reason to report
resetLosesReason(ks, evs, tenantId, reason) ==
    IF ~isActive(ks, tenantId)
    THEN [ks |-> ks, events |-> evs]
    ELSE [ks |-> IF tenantId # NoString
                 THEN [ks EXCEPT !.tenantState[tenantId] = KsInactive]
                 ELSE [ks EXCEPT !.globalActive = FALSE, !.globalActivatedAt = NoTime,
                                 !.globalReason = NoString],
          events |-> Append(evs, Event("killswitch.deactivated", NoString, NoString, tenantId,
                                       [EventData EXCEPT !.reason = "Manual reset"]))]

\* KillSwitchManager.reset: [ks, events] afterwards (reason ?? 'Manual reset')
reset(ks, evs, tenantId, reason) ==
    LET why == IF reason = NoString THEN "Manual reset" ELSE reason
    IN IF tenantId # NoString THEN
           IF ~(ks.tenantState[tenantId].present /\ ks.tenantState[tenantId].active)
           THEN [ks |-> ks, events |-> evs]
           ELSE [ks |-> [ks EXCEPT !.tenantState[tenantId] = KsInactive],
                 events |-> Append(evs, Event("killswitch.deactivated", NoString, NoString, tenantId,
                                [EventData EXCEPT !.reason = why,
                                       !.previousReason = ks.tenantState[tenantId].reason]))]
       ELSE IF ~ks.globalActive THEN [ks |-> ks, events |-> evs]
       ELSE [ks |-> [ks EXCEPT !.globalActive = FALSE, !.globalActivatedAt = NoTime,
                               !.globalReason = NoString],
             events |-> Append(evs, Event("killswitch.deactivated", NoString, NoString, NoString,
                                [EventData EXCEPT !.reason = why,
                                       !.previousReason = ks.globalReason]))]

-----------------------------------------------------------------------------
(* GovernanceMiddleware                                                    *)

CallIds == 1..MaxCalls

NoPolicy == NullPolicy             \* this.policy === null; getActivePolicy found no row

MainPolicy ==
    Policy("main", << Rule("approve-y", "y", "allow", NoCondition, NoString, TRUE),
                      Rule("deny-x", "x", "deny", NoCondition, "Forbidden", FALSE),
                      Rule("wild-allow", "*", "allow", NoCondition, NoString, FALSE) >>)
StoredPolicy ==
    Policy("stored", << Rule("allow-x", "x", "allow", NoCondition, NoString, FALSE) >>)

defaultAllowAllPolicy ==
    Policy("default-allow-all", << Rule(NoString, "*", "allow", NoCondition, NoString, FALSE) >>)

OrchTools == {"x", "y"}
ToolParams(tool) ==
    IF tool = "y" THEN Params(<< <<"path", Str(TmpX)>>, <<"mode", Str(<<"w">>)>> >>)
    ELSE NoParams

\* generateTraceId(): a fresh identifier for every call
generateTraceId(c) == "trace-" \o ToString(c)

KillSwitchReason == "Kill-Switch is active - all tool calls denied"
ResolutionFailed == "Policy resolution failed - database error (fail-secure)"
NoApprovalInfra == "Approval required but approval infrastructure not available"

NoEvaluateResult ==
    [allowed |-> FALSE, traceId |-> NoString, reason |-> NoString, appliedRules |-> <<>>,
     requiresApproval |-> FALSE, approvalId |-> NoString, deadline |-> NoTime]

\* an EvaluateResult without the approval fields
EvaluateResult(allowed, traceId, reason, appliedRules) ==
    [allowed |-> allowed, traceId |-> traceId, reason |-> reason,
     appliedRules |-> appliedRules,
     requiresApproval |-> FALSE, approvalId |-> NoString, deadline |-> NoTime]

NoAuditEvent ==
    AuditEventInput(NoString, NoTime, NoString, NoString, NoParams, NoString, NoString, NoString)

NoApproval ==
    [id |-> NoString, agentId |-> NoString, tool |-> NoString, params |-> NoParams,
     traceId |-> NoString, policyName |-> NoString, ruleName |-> NoString,
     status |-> NoString, deadline |-> NoTime, approver |-> NoString, comment |-> NoString,
     createdAt |-> NoTime, resolvedAt |-> NoTime, tenantId |-> NoString]

IdleCall ==
    [pc |-> "idle", request |-> Request("x", NoParams),
     result |-> NoEvaluateResult,
     resolved |-> NoPolicy, failed |-> FALSE,
     auditEvent |-> NoAuditEvent, previousHash |-> NullHash, context |-> NoString,
     approval |-> NoApproval,
     \* what happened during the call
     ksActiveAtStart |-> FALSE, askedPolicy |-> FALSE, engineInvoked |-> FALSE,
     engineResult |-> NoEvaluateResult,
     outcome |-> "none",
     \* the handle the call was made through, the trace id the caller supplied,
     \* the code of the GovernanceError thrown
     via |-> NoString, supplied |-> NoString, error |-> NoString]

NoSql == [op |-> "none", error |-> ""]

OpIds == 1..MaxOps

NoResolution == [status |-> NoString, approver |-> NoString, comment |-> NoString]

IdleOp ==
    [pc |-> "idle", kind |-> "none", id |-> NoString, resolution |-> NoResolution,
     changed |-> FALSE, approval |-> NoApproval, results |-> <<>>, idx |-> 0,
     checkedAt |-> NoTime, auditEvent |-> NoAuditEvent, previousHash |-> NullHash,
     resolved |-> FALSE, returned |-> <<>>,
     \* what happened during the call
     won |-> {}, emitted |-> <<>>, wrote |-> 0]

NoKsCall == [op |-> "none", tenantId |-> NoString, reason |-> NoString, wasActive |-> FALSE]

\* a GovernanceEventEmitter nobody has subscribed to or emitted on
BusTypes == {"tool_call.allowed", "agent.error"}

NoBusCall == [op |-> "none", type |-> NoString]

NoBus ==
    [listeners |-> [t \in BusTypes |-> <<>>], queue |-> <<>>, emissions |-> <<>>,
     invoked |-> <<>>, races |-> <<>>, warnings |-> <<>>, uncaught |-> FALSE, subs |-> 0,
     emits |-> 0,
     \* the traceIdResolver given to the constructor, how often it has been
     \* invoked, and the latest emit or emitEvent call
     resolver |-> "none", resolverCalls |-> 0, last |-> NoBusCall]

\* a DatabaseAdapter without forTenant (or one that returns itself): forTenant
\* returns the orchestrator itself
NoOwnPolicy == [own |-> FALSE, policy |-> NoPolicy]

NoPolicyCall == [op |-> "none", via |-> NoString]

\* the policies table has no row for the name
NoRow == [present |-> FALSE, version |-> NoString, rules |-> <<>>]

NoStoreCall == [op |-> "none", name |-> NoString, threw |-> NoString]

PolicyNames == {"main", "stored"}

\* empty policies and policy_versions tables; overwritten is the list of the
\* rows that an upsert has replaced so far
NoStore ==
    [policies |-> [n \in PolicyNames |-> NoRow], versions |-> <<>>, overwritten |-> <<>>,
     ops |-> 0, last |-> NoStoreCall]

NoTenancy ==
    [scoping |-> FALSE, policy |-> [t \in Tenants |-> NoOwnPolicy], lastSet |-> NoPolicyCall]

Init ==
    /\ PolicyEngineIdle
    /\ cfg \in { c \in [hasDb : BOOLEAN, approvals : BOOLEAN] : c.approvals => c.hasDb }
    /\ killSwitch = KillSwitchInit
    /\ inlinePolicy \in {NoPolicy, MainPolicy}
    /\ dbPolicy \in IF cfg.hasDb THEN {NoPolicy, StoredPolicy} ELSE {NoPolicy}
    /\ calls = [c \in CallIds |-> IdleCall]
    /\ audit = <<>>
    /\ approvals = <<>>
    /\ events = <<>>
    /\ now = 0
    /\ sql = NoSql
    /\ tampered = 0
    /\ ksOps = 0
    /\ ksLast = NoKsCall
    /\ approvalOps = [o \in OpIds |-> IdleOp]
    /\ bus = NoBus
    /\ tenancy = NoTenancy
    /\ store = NoStore

\* the state in which no middleware has been used
MiddlewareIdle ==
    /\ cfg = [hasDb |-> FALSE, approvals |-> FALSE]
    /\ killSwitch = KillSwitchInit
    /\ inlinePolicy = NoPolicy
    /\ dbPolicy = NoPolicy
    /\ calls = [c \in CallIds |-> IdleCall]
    /\ audit = <<>>
    /\ approvals = <<>>
    /\ events = <<>>
    /\ now = 0
    /\ sql = NoSql
    /\ tampered = 0
    /\ ksOps = 0
    /\ ksLast = NoKsCall
    /\ approvalOps = [o \in OpIds |-> IdleOp]
    /\ tenancy = NoTenancy
    /\ store = NoStore

OrchIdle == MiddlewareIdle /\ bus = NoBus

\* the tool_call events emitted before the engine has run carry the local traceId
ToolCallEvent(type, call, reason, killSwitchFlag) ==
    Event(type, call.request.traceId, call.request.agentId, call.via,
          [EventData EXCEPT !.tool = call.request.tool, !.reason = reason,
                            !.killSwitch = killSwitchFlag])

\* the tool_call events of steps 3.5 and 4 carry result.traceId, the engine's
DecisionEvent(type, call, reason) ==
    Event(type, call.engineResult.traceId, call.request.agentId, call.via,
          [EventData EXCEPT !.tool = call.request.tool, !.reason = reason])

\* step 5 of evaluate up to its await: db.writeAuditEvent is called and reads the
\* latest hash; the INSERT happens when the call is resumed
startAudit(call, result, failureCategory, context) ==
    IF cfg.hasDb
    THEN [call EXCEPT !.pc = "audit", !.result = result,
                      !.auditEvent = AuditEventInput(result.traceId, now, call.request.agentId,
                                         call.request.tool, call.request.params,
                                         IF result.allowed THEN "allowed" ELSE "denied",
                                         result.reason, failureCategory),
                      !.previousHash = getLatestAuditHash(audit),
                      !.context = context]
    ELSE [call EXCEPT !.pc = "done", !.result = result]

\* Faulty interception result that passes the engine's decision through
approvalResultPassThrough(result, approval) ==
    [result EXCEPT !.requiresApproval = TRUE, !.approvalId = approval.id,
                   !.deadline = approval.deadline]

\* the result handleApprovalRequired returns once the record is persisted
approvalResult(result, approval) ==
    [allowed |-> FALSE, traceId |-> result.traceId,
     reason |-> "Approval required - request " \o approval.id \o " pending",
     appliedRules |-> result.appliedRules,
     requiresApproval |-> TRUE, approvalId |-> approval.id, deadline |-> approval.deadline]

\* SqliteDatabaseAdapter.createApprovalRequest: the record it inserts and returns
createApprovalRequest(rows, call, result) ==
    [id |-> "approval-" \o ToString(Len(rows) + 1),
     agentId |-> call.request.agentId, tool |-> call.request.tool,
     params |-> call.request.params, traceId |-> result.traceId,
     policyName |-> result.appliedRules[1].policyName,
     ruleName |-> result.appliedRules[1].ruleName,
     status |-> "pending", deadline |-> now + ApprovalTimeoutSeconds,
     approver |-> NoString, comment |-> NoString,
     createdAt |-> now, resolvedAt |-> NoTime, tenantId |-> "default"]

\* Faulty interception-free path: the engine's decision is announced and audited
\* whatever the winning rule asks for
announceDecision(invoked, createOk) ==
    [call |-> startAudit(invoked, invoked.engineResult,
                         IF invoked.engineResult.allowed THEN NoString ELSE "policy_denial",
                         "policy_evaluation"),
     events |-> Append(events,
                       DecisionEvent(IF invoked.engineResult.allowed
                                     THEN "tool_call.allowed" ELSE "tool_call.denied",
                                     invoked, invoked.engineResult.reason)),
     approvals |-> approvals]

\* Faulty step 4 that starts the audit write without announcing the decision
auditUnannounced(invoked, createOk) ==
    [call |-> startAudit(invoked, invoked.engineResult,
                         IF invoked.engineResult.allowed THEN NoString ELSE "policy_denial",
                         "policy_evaluation"),
     events |-> events,
     approvals |-> approvals]

\* Faulty fallback that goes on to the audit write
noApprovalInfraAudited(invoked) ==
    [call |-> startAudit(invoked,
                         [EvaluateResult(FALSE, invoked.engineResult.traceId, NoApprovalInfra,
                                         invoked.engineResult.appliedRules)
                          EXCEPT !.requiresApproval = TRUE],
                         "policy_denial", "policy_evaluation"),
     events |-> Append(events, DecisionEvent("tool_call.denied", invoked, NoApprovalInfra)),
     approvals |-> approvals]

\* handleApprovalRequired without db.createApprovalRequest: the fail-secure
\* denial, returned straight from evaluate
noApprovalInfra(invoked) ==
    [call |-> [invoked EXCEPT !.pc = "done",
                 !.result = [EvaluateResult(FALSE, invoked.engineResult.traceId,
                                            NoApprovalInfra,
                                            invoked.engineResult.appliedRules)
                             EXCEPT !.requiresApproval = TRUE]],
     events |-> Append(events, DecisionEvent("tool_call.denied", invoked, NoApprovalInfra)),
     approvals |-> approvals]

\* step 3.5 onwards, given the call with the engine's result in engineResult:
\* [call, events, approvals] afterwards
intercept(invoked, createOk) ==
    IF invoked.engineResult.allowed /\ Len(invoked.engineResult.appliedRules) > 0
                                    /\ invoked.engineResult.appliedRules[1].requireApproval
    THEN IF ~cfg.approvals
         THEN noApprovalInfra(invoked)
         ELSE IF createOk
         THEN [call |-> [invoked EXCEPT !.pc = "approval",
                           !.approval = createApprovalRequest(approvals, invoked,
                                                              invoked.engineResult)],
               events |-> events,
               approvals |-> Append(approvals,
                                    createApprovalRequest(approvals, invoked,
                                                          invoked.engineResult))]
         ELSE [call |-> [invoked EXCEPT !.pc = "approval", !.failed = TRUE],
               events |-> events, approvals |-> approvals]
    ELSE [call |-> startAudit(invoked, invoked.engineResult,
                              IF invoked.engineResult.allowed THEN NoString
                                                              ELSE "policy_denial",
                              "policy_evaluation"),
          events |-> Append(events,
                            DecisionEvent(IF invoked.engineResult.allowed
                                          THEN "tool_call.allowed" ELSE "tool_call.denied",
                                          invoked,
                                          IF invoked.engineResult.allowed THEN NoString
                                          ELSE invoked.engineResult.reason)),
          approvals |-> approvals]

\* Faulty hand-over in which the engine's result carries a trace id of its own
engineResultRestamped(r) == EvaluateResult(r.allowed, "trace-engine", r.reason, r.appliedRules)

\* the engine's EvaluateResult as the middleware passes it on
engineResultOf(r) == EvaluateResult(r.allowed, r.traceId, r.reason, r.appliedRules)

\* steps 3 to 5 of evaluate, up to the next await: [call, events, approvals] afterwards
decide(call, policy, createOk) ==
    intercept([call EXCEPT !.engineInvoked = TRUE,
                           !.engineResult = engineResultOf(engineEvaluate(call.request, policy))],
              createOk)

\* the effect of a step of call c on the call, the event log and the approvals
Continue(c, next) ==
    /\ calls' = [calls EXCEPT ![c] = next.call]
    /\ events' = next.events
    /\ approvals' = next.approvals

\* call c made through handle via with a request that passed validation:
\* traceId = request.traceId ?? generateTraceId()
Requested(c, request, via) ==
    [calls[c] EXCEPT !.request = [request EXCEPT
                                     !.traceId = IF request.traceId = NoString
                                                 THEN generateTraceId(c)
                                                 ELSE request.traceId],
                     !.supplied = request.traceId,
                     !.via = via,
                     !.ksActiveAtStart = killSwitch.globalActive]

\* a request for a tool without a trace id, made through the orchestrator itself
Started(c, tool) ==
    Requested(c, [Request(tool, ToolParams(tool)) EXCEPT !.traceId = NoString], NoString)

\* Faulty kill-switch branch that denies without announcing it
denyByKillSwitchSilent(call) ==
    [call |-> startAudit(call, EvaluateResult(FALSE, call.request.traceId,
                                              KillSwitchReason, <<>>),
                         NoString, "killswitch_denial"),
     events |-> events,
     approvals |-> approvals]

\* the kill-switch branch of evaluate, up to its await
denyByKillSwitch(call) ==
    [call |-> startAudit(call, EvaluateResult(FALSE, call.request.traceId,
                                              KillSwitchReason, <<>>),
                         NoString, "killswitch_denial"),
     events |-> Append(events, ToolCallEvent("tool_call.denied", call,
                                             KillSwitchReason, TRUE)),
     approvals |-> approvals]

\* Faulty lookup in which a scoped handle never sees the orchestrator's policy
policyOfDetached(via) ==
    IF via # NoString THEN tenancy.policy[via].policy ELSE inlinePolicy

\* this.policy as a handle reads it: the own property a setPolicy or clearPolicy
\* through the handle created, otherwise the property of its prototype
policyOf(via) ==
    IF via # NoString /\ tenancy.policy[via].own THEN tenancy.policy[via].policy
                                                 ELSE inlinePolicy

\* this.db.getActivePolicy: the policies table, or the scoped adapter's answer
getActivePolicy(via) == IF via = NoString THEN dbPolicy ELSE NoPolicy

\* evaluate suspended in db.getActivePolicy, which has read the policies table
askPolicy(call, ok) ==
    [call |-> [call EXCEPT !.pc = "policy", !.askedPolicy = TRUE,
                           !.resolved = getActivePolicy(call.via), !.failed = ~ok],
     events |-> events, approvals |-> approvals]

\* Faulty fallback that decides every call by the default policy
orDefaultAlways(policy) == defaultAllowAllPolicy

\* policy ?? defaultAllowAllPolicy()
orDefault(policy) == IF policy = NoPolicy THEN defaultAllowAllPolicy ELSE policy

\* steps 1 to 5 of evaluate for a valid request, up to the first await (or to
\* the return): [call, events, approvals] afterwards
begin(call, ok) ==
    IF isActive(killSwitch, call.via)
    THEN denyByKillSwitch(call)
    ELSE IF policyOf(call.via) = NoPolicy /\ cfg.hasDb
    THEN askPolicy(call, ok)
    ELSE decide(call, orDefault(policyOf(call.via)), ok)

\* evaluate(request) from its call to its first await (or to its return)
EvaluateStart(c, tool) ==
    /\ calls[c].pc = "idle"
    /\ \A d \in 1..(c - 1) : calls[d].pc # "idle"
    /\ \E ok \in BOOLEAN : Continue(c, begin(Started(c, tool), ok))
    /\ UNCHANGED <<peVars, store, bus, tenancy, approvalOps, ksLast, cfg, killSwitch, inlinePolicy, dbPolicy, audit, now, sql,
                   tampered, ksOps>>

\* Faulty handling of a failed getActivePolicy that goes on to the audit write
resolutionFailedAudited(call) ==
    [call |-> startAudit([call EXCEPT !.failed = FALSE, !.outcome = "policy_error"],
                         EvaluateResult(FALSE, call.request.traceId, ResolutionFailed, <<>>),
                         "policy_denial", "policy_evaluation"),
     events |-> Append(events, ToolCallEvent("tool_call.denied", call,
                                             ResolutionFailed, FALSE)),
     approvals |-> approvals]

\* the fail-secure return of evaluate when getActivePolicy has thrown
resolutionFailed(call) ==
    [call |-> [call EXCEPT !.pc = "done", !.failed = FALSE, !.outcome = "policy_error",
                           !.result = EvaluateResult(FALSE, call.request.traceId,
                                                     ResolutionFailed, <<>>)],
     events |-> Append(events, ToolCallEvent("tool_call.denied", call,
                                             ResolutionFailed, FALSE)),
     approvals |-> approvals]

\* evaluate resumed after db.getActivePolicy
EvaluateResolved(c) ==
    /\ calls[c].pc = "policy"
    /\ \E createOk \in BOOLEAN :
          Continue(c, IF calls[c].failed
                      THEN resolutionFailed(calls[c])
                      ELSE decide(calls[c], orDefault(calls[c].resolved), createOk))
    /\ UNCHANGED <<peVars, store, bus, tenancy, approvalOps, ksLast, cfg, killSwitch, inlinePolicy, dbPolicy, audit, now, sql,
                   tampered, ksOps>>

\* Faulty continuation that swallows a failed createApprovalRequest and lets the
\* engine's decision through
approvalCreatedSwallows(call) ==
    IF call.failed
    THEN [call |-> [call EXCEPT !.pc = "done", !.result = call.engineResult],
          events |-> Append(events, DecisionEvent("tool_call.allowed", call, NoString)),
          approvals |-> approvals]
    ELSE [call |-> [call EXCEPT !.pc = "done",
                                !.result = approvalResult(call.engineResult, call.approval)],
          events |-> Append(events,
                       Event("approval.requested", call.engineResult.traceId,
                             call.request.agentId, call.via,
                             [EventData EXCEPT !.tool = call.request.tool,
                                               !.approvalId = call.approval.id])),
          approvals |-> approvals]

\* handleApprovalRequired after its await: a rejected createApprovalRequest
\* leaves evaluate by exception; otherwise approval.requested is emitted and the
\* pending result returned
approvalCreated(call) ==
    IF call.failed
    THEN [call |-> [call EXCEPT !.pc = "thrown"], events |-> events, approvals |-> approvals]
    ELSE [call |-> [call EXCEPT !.pc = "done",
                                !.result = approvalResult(call.engineResult, call.approval)],
          events |-> Append(events,
                       Event("approval.requested", call.engineResult.traceId,
                             call.request.agentId, call.via,
                             [EventData EXCEPT !.tool = call.request.tool,
                                               !.approvalId = call.approval.id])),
          approvals |-> approvals]

\* handleApprovalRequired resumed after db.createApprovalRequest
EvaluateApprovalCreated(c) ==
    /\ calls[c].pc = "approval"
    /\ Continue(c, approvalCreated(calls[c]))
    /\ UNCHANGED <<peVars, store, bus, tenancy, approvalOps, ksLast, cfg, killSwitch, inlinePolicy, dbPolicy, audit, now,
                   sql, tampered, ksOps>>

\* Faulty catch block that turns the decision into a denial
auditWriteFailedDenies(call) ==
    [call |-> [call EXCEPT !.pc = "done", !.outcome = "audit_error",
                           !.result = EvaluateResult(FALSE, call.request.traceId,
                                                     "Database write failed", <<>>)],
     events |-> Append(events,
                       Event("audit.write_failure", call.result.traceId,
                             call.request.agentId, call.via,
                             [EventData EXCEPT !.context = call.context])),
     approvals |-> approvals]

\* the catch block around db.writeAuditEvent: audit.write_failure naming the
\* context, and evaluate returns the result it already had
auditWriteFailed(call) ==
    [call |-> [call EXCEPT !.pc = "done", !.outcome = "audit_error"],
     events |-> Append(events,
                       Event("audit.write_failure", call.result.traceId,
                             call.request.agentId, call.via,
                             [EventData EXCEPT !.context = call.context])),
     approvals |-> approvals]

\* this.db.writeAuditEvent once resumed: the INSERT into audit_events; the scoped
\* adapter keeps its records elsewhere
writeAuditEvent(rows, call) ==
    IF call.via = NoString THEN Append(rows, auditRow(rows, call.auditEvent, call.previousHash))
                           ELSE rows

\* writeAuditEvent resumed after getLatestAuditHash: INSERT, then evaluate returns;
\* a failed write is reported as audit.write_failure and the result stands
EvaluateAuditWritten(c) ==
    /\ calls[c].pc = "audit"
    /\ \E ok \in BOOLEAN :
          IF ok
          THEN /\ audit' = writeAuditEvent(audit, calls[c])
               /\ calls' = [calls EXCEPT ![c].pc = "done"]
               /\ UNCHANGED <<events, approvals>>
          ELSE /\ Continue(c, auditWriteFailed(calls[c]))
               /\ UNCHANGED audit
    /\ UNCHANGED <<peVars, store, bus, tenancy, approvalOps, ksLast, cfg, killSwitch, inlinePolicy, dbPolicy, now, sql,
                   tampered, ksOps>>

\* the scopes of the handles the middleware is used through: the orchestrator
\* itself and the one derived for tenant t1
KsScopes == {NoString, "t1"}

\* every scope of the KillSwitchManager
AllScopes == {NoString} \cup Tenants

\* KillSwitchManager.activate(reason, tenantId); emergencyStop is the global scope
ActivateCall(reason, tenantId) ==
    /\ ksLast' = [op |-> "activate", tenantId |-> tenantId, reason |-> reason,
                   wasActive |-> isActive(killSwitch, tenantId)]
    /\ LET next == activate(killSwitch, events, reason, tenantId)
       IN /\ killSwitch' = next.ks
          /\ events' = next.events
          /\ ksOps' = IF next.ks = killSwitch THEN ksOps ELSE ksOps + 1
    /\ UNCHANGED <<peVars, store, bus, tenancy, approvalOps, cfg, inlinePolicy, dbPolicy, calls, audit, approvals, now, sql,
                   tampered>>

\* KillSwitchManager.reset(tenantId, reason)
ResetCall(tenantId, reason) ==
    /\ ksLast' = [op |-> "reset", tenantId |-> tenantId, reason |-> reason,
                   wasActive |-> isActive(killSwitch, tenantId)]
    /\ LET next == reset(killSwitch, events, tenantId, reason)
       IN /\ killSwitch' = next.ks
          /\ events' = next.events
          /\ ksOps' = IF next.ks = killSwitch THEN ksOps ELSE ksOps + 1
    /\ UNCHANGED <<peVars, store, bus, tenancy, approvalOps, cfg, inlinePolicy, dbPolicy, calls, audit, approvals, now, sql,
                   tampered>>

Tick ==
    /\ now < MaxTime
    /\ now' = now + 1
    /\ UNCHANGED <<peVars, store, bus, tenancy, approvalOps, ksLast, cfg, killSwitch, inlinePolicy, dbPolicy, calls, audit, approvals,
                   events, sql, tampered, ksOps>>

\* the calls the middleware runs make, MaxKsOps of them with an effect
Activate(reason, tenantId) == ksOps < MaxKsOps /\ ActivateCall(reason, tenantId)

Reset(tenantId, reason) == ksOps < MaxKsOps /\ ResetCall(tenantId, reason)

\* UPDATE audit_events SET result = ... WHERE id = k
SqlUpdateAudit(k, result) ==
    /\ cfg.hasDb
    /\ k \in 1..Len(audit)
    /\ LET done == auditUpdate(audit, k, result)
       IN /\ audit' = done.rows
          /\ sql' = [op |-> "UPDATE", error |-> done.error]
    /\ UNCHANGED <<peVars, store, bus, tenancy, approvalOps, ksLast, cfg, killSwitch, inlinePolicy, dbPolicy, calls, approvals, events,
                   now, tampered, ksOps>>

\* DELETE FROM audit_events WHERE id = k
SqlDeleteAudit(k) ==
    /\ cfg.hasDb
    /\ k \in 1..Len(audit)
    /\ LET done == auditDelete(audit, k)
       IN /\ audit' = done.rows
          /\ sql' = [op |-> "DELETE", error |-> done.error]
    /\ UNCHANGED <<peVars, store, bus, tenancy, approvalOps, ksLast, cfg, killSwitch, inlinePolicy, dbPolicy, calls, approvals, events,
                   now, tampered, ksOps>>

Next ==
    \/ \E c \in CallIds, tool \in OrchTools : EvaluateStart(c, tool)
    \/ \E c \in CallIds : EvaluateResolved(c)
    \/ \E c \in CallIds : EvaluateApprovalCreated(c)
    \/ \E c \in CallIds : EvaluateAuditWritten(c)
    \/ \E t \in KsScopes : Activate("stop", t)
    \/ \E t \in KsScopes : Reset(t, NoString)
    \/ Tick
    \/ \E k \in 1..MaxCalls : SqlUpdateAudit(k, "allowed")
    \/ \E k \in 1..MaxCalls : SqlDeleteAudit(k)

Spec == Init /\ [][Next]_vars

\* the policy engine on its own: no middleware is in use
InitPolicy == InitPolicyEngine /\ OrchIdle

SpecPolicy == InitPolicy /\ [][NextPolicyEngine]_vars

\* The same store on a table created without the triggers: the stored hash of
\* record k of an intact chain is overwritten with another value
TamperHash(k, hash) ==
    /\ tampered = 0
    /\ k \in 1..Len(audit)
    /\ verifyAuditChain(audit).valid
    /\ hash # audit[k].hash
    /\ audit' = [audit EXCEPT ![k].hash = hash]
    /\ tampered' = k
    /\ UNCHANGED <<peVars, store, bus, tenancy, approvalOps, ksLast, cfg, killSwitch, inlinePolicy, dbPolicy, calls, approvals, events,
                   now, sql, ksOps>>

\* values the stored hash may be replaced by: a foreign digest, the digest of
\* another record, the digest of the same record over another predecessor
OtherHashes ==
    {DeadBeef} \cup { audit[i].hash : i \in 1..Len(audit) }
               \cup { expectedHash([audit[i] EXCEPT !.previous_hash = DeadBeef]) :
                          i \in 1..Len(audit) }

NextTamper ==
    \/ \E c \in CallIds, tool \in OrchTools : EvaluateStart(c, tool)
    \/ \E c \in CallIds : EvaluateResolved(c)
    \/ \E c \in CallIds : EvaluateApprovalCreated(c)
    \/ \E c \in CallIds : EvaluateAuditWritten(c)
    \/ \E t \in KsScopes : Activate("stop", t)
    \/ \E k \in 1..MaxCalls, h \in OtherHashes : TamperHash(k, h)

SpecTamper == Init /\ [][NextTamper]_vars




\* Reasons handed to activate
KsReasons == {"stop", "again"}

\* the kill switch on its own: activations and resets of both tiers over time
NextKillSwitch ==
    \/ \E reason \in KsReasons, t \in AllScopes : ksOps < MaxSwitches /\ ActivateCall(reason, t)
    \/ \E t \in AllScopes : ksOps < MaxSwitches /\ ResetCall(t, NoString)
    \/ Tick

SpecKillSwitch == Init /\ [][NextKillSwitch]_vars

\* Policies handed to setPolicy: they pass policySchema.parse
SetPolicies == {MainPolicy}

\* setPolicy(policy)
SetPolicy(policy) ==
    /\ inlinePolicy' = policy
    /\ UNCHANGED <<peVars, store, bus, tenancy, approvalOps, ksLast, cfg, killSwitch, dbPolicy, calls, audit,
                   approvals, events, now, sql, tampered, ksOps>>

\* clearPolicy()
ClearPolicy ==
    /\ inlinePolicy' = NoPolicy
    /\ UNCHANGED <<peVars, store, bus, tenancy, approvalOps, ksLast, cfg, killSwitch, dbPolicy, calls, audit,
                   approvals, events, now, sql, tampered, ksOps>>

\* evaluate with setPolicy and clearPolicy between and during the calls
NextPolicySource ==
    \/ \E c \in CallIds, tool \in OrchTools : EvaluateStart(c, tool)
    \/ \E c \in CallIds : EvaluateResolved(c)
    \/ \E c \in CallIds : EvaluateApprovalCreated(c)
    \/ \E c \in CallIds : EvaluateAuditWritten(c)
    \/ \E policy \in SetPolicies : SetPolicy(policy)
    \/ ClearPolicy

SpecPolicySource == Init /\ [][NextPolicySource]_vars

-----------------------------------------------------------------------------
(* Request validation and tenant-scoped handles                            *)

\* evaluateRequestSchema.parse: agentId and tool are strings of at least one
\* character (params and traceId are optional)
evaluateRequestSchema(request) ==
    /\ request.agentId \notin {NoString, ""}
    /\ request.tool \notin {NoString, ""}

\* Faulty validation failure that is announced as a denial before it is thrown
invalidRequestDenied(call, request, via) ==
    [call |-> [call EXCEPT !.pc = "thrown", !.request = request, !.via = via,
                           !.supplied = request.traceId, !.error = "INVALID_REQUEST"],
     events |-> Append(events, Event("tool_call.denied", request.traceId, request.agentId,
                                     via, [EventData EXCEPT !.tool = request.tool])),
     approvals |-> approvals]

\* step 0 of evaluate for a request the schema rejects: GovernanceError with
\* code INVALID_REQUEST, thrown before anything else is done
invalidRequest(call, request, via) ==
    [call |-> [call EXCEPT !.pc = "thrown", !.request = request, !.via = via,
                           !.supplied = request.traceId, !.error = "INVALID_REQUEST"],
     events |-> events,
     approvals |-> approvals]

\* forTenant(tenantId) on the orchestrator, as the handle it returns: the
\* orchestrator itself (NoString) unless the adapter hands out a scoped adapter;
\* a scoped handle is named by its tenantId
forTenant(tenantId) ==
    IF cfg.hasDb /\ tenancy.scoping THEN tenantId ELSE NoString

\* evaluate(request) through a handle, from the call to its first await, its
\* return or its throw
Evaluate(c, request, via) ==
    /\ calls[c].pc = "idle"
    /\ \A d \in 1..(c - 1) : calls[d].pc # "idle"
    /\ \E ok \in BOOLEAN :
          Continue(c, IF evaluateRequestSchema(request)
                      THEN begin(Requested(c, request, via), ok)
                      ELSE invalidRequest(calls[c], request, via))
    /\ UNCHANGED <<peVars, store, bus, tenancy, approvalOps, ksLast, cfg, killSwitch, inlinePolicy,
                   dbPolicy, audit, now, sql, tampered, ksOps>>

\* Faulty setPolicy that stores the policy where every handle reads it
setPolicyShared(via, policy) ==
    [inlinePolicy |-> policy, tenancy |-> tenancy]

\* this.policy = policy through a handle: an own property of a scoped handle (an
\* object created from the orchestrator), the orchestrator's field otherwise
setPolicy(via, policy) ==
    IF via = NoString
    THEN [inlinePolicy |-> policy, tenancy |-> tenancy]
    ELSE [inlinePolicy |-> inlinePolicy,
          tenancy |-> [tenancy EXCEPT !.policy[via] = [own |-> TRUE, policy |-> policy]]]

\* setPolicy(policy) through a handle
SetPolicyVia(via, policy) ==
    /\ inlinePolicy' = setPolicy(via, policy).inlinePolicy
    /\ tenancy' = [setPolicy(via, policy).tenancy
                   EXCEPT !.lastSet = [op |-> "setPolicy", via |-> via]]
    /\ UNCHANGED <<peVars, store, bus, approvalOps, ksLast, cfg, killSwitch, dbPolicy, calls, audit,
                   approvals, events, now, sql, tampered, ksOps>>

\* clearPolicy() through a handle: this.policy = null
ClearPolicyVia(via) ==
    /\ inlinePolicy' = setPolicy(via, NoPolicy).inlinePolicy
    /\ tenancy' = [setPolicy(via, NoPolicy).tenancy
                   EXCEPT !.lastSet = [op |-> "clearPolicy", via |-> via]]
    /\ UNCHANGED <<peVars, store, bus, approvalOps, ksLast, cfg, killSwitch, dbPolicy, calls, audit,
                   approvals, events, now, sql, tampered, ksOps>>

\* emergencyStop(reason) through a handle
EmergencyStop(via, reason) == ksOps < MaxKsOps /\ ActivateCall(reason, via)

\* resetKillSwitch() through a handle
ResetKillSwitch(via) == ksOps < MaxKsOps /\ ResetCall(via, NoString)

\* requests without a trace id that pass validation
ValidRequests ==
    { [Request(tool, ToolParams(tool)) EXCEPT !.traceId = NoString] : tool \in OrchTools }

\* an orchestrator with a database, without approval infrastructure; the adapter
\* may or may not hand out scoped adapters
InitTenants ==
    /\ PolicyEngineIdle
    /\ cfg = [hasDb |-> TRUE, approvals |-> FALSE]
    /\ killSwitch = KillSwitchInit
    /\ inlinePolicy \in {NoPolicy, MainPolicy}
    /\ dbPolicy \in {NoPolicy, StoredPolicy}
    /\ calls = [c \in CallIds |-> IdleCall]
    /\ audit = <<>>
    /\ approvals = <<>>
    /\ events = <<>>
    /\ now = 0
    /\ sql = NoSql
    /\ tampered = 0
    /\ ksOps = 0
    /\ ksLast = NoKsCall
    /\ approvalOps = [o \in OpIds |-> IdleOp]
    /\ bus = NoBus
    /\ tenancy \in { [NoTenancy EXCEPT !.scoping = b] : b \in BOOLEAN }
    /\ store = NoStore

\* the orchestrator and the handle forTenant derives from it for t1, used side
\* by side with emergency stops and resets through either
NextTenants ==
    \/ \E c \in CallIds, request \in ValidRequests, t \in KsScopes :
          Evaluate(c, request, forTenant(t))
    \/ \E c \in CallIds : EvaluateResolved(c)
    \/ \E c \in CallIds : EvaluateAuditWritten(c)
    \/ \E t \in KsScopes : EmergencyStop(forTenant(t), "stop")
    \/ \E t \in KsScopes : ResetKillSwitch(forTenant(t))

SpecTenants == InitTenants /\ [][NextTenants]_vars

\* the orchestrator and the handles of both tenants, with setPolicy and
\* clearPolicy through any of them between and during the calls
NextTenantPolicy ==
    \/ \E c \in CallIds, request \in ValidRequests, t \in AllScopes :
          Evaluate(c, request, forTenant(t))
    \/ \E c \in CallIds : EvaluateResolved(c)
    \/ \E c \in CallIds : EvaluateAuditWritten(c)
    \/ \E t \in AllScopes, policy \in SetPolicies : SetPolicyVia(forTenant(t), policy)
    \/ \E t \in AllScopes : ClearPolicyVia(forTenant(t))

SpecTenantPolicy == InitTenants /\ [][NextTenantPolicy]_vars

\* requests as callers hand them in: with and without a trace id, with an empty
\* agentId or tool
CallerTraceIds == {NoString, "caller-1"}

RequestInputs ==
    { [agentId |-> a, tool |-> tool, params |-> ToolParams(tool), traceId |-> id] :
         a \in {"agent-1", ""}, tool \in OrchTools \cup {""}, id \in CallerTraceIds }

\* evaluate on the orchestrator itself with every kind of request
NextRequests ==
    \/ \E c \in CallIds, request \in RequestInputs : Evaluate(c, request, NoString)
    \/ \E c \in CallIds : EvaluateResolved(c)
    \/ \E c \in CallIds : EvaluateApprovalCreated(c)
    \/ \E c \in CallIds : EvaluateAuditWritten(c)
    \/ EmergencyStop(NoString, "stop")
    \/ ResetKillSwitch(NoString)

SpecRequests == Init /\ [][NextRequests]_vars

-----------------------------------------------------------------------------
(* Approval workflow                                                       *)

TerminalStatuses == {"approved", "rejected", "timeout"}

\* the row an UPDATE of resolveApprovalRequest leaves behind
resolvedRow(row, resolution) ==
    [row EXCEPT !.status = resolution.status, !.approver = resolution.approver,
                !.comment = resolution.comment, !.resolvedAt = now]

\* Faulty WHERE clause that does not ask for status = 'pending'
appliesWhateverStatus(row, id, resolution) ==
    /\ row.id = id
    /\ resolution.status = "timeout" \/ row.deadline > now

\* Faulty WHERE clause that does not look at the deadline
appliesWhateverTime(row, id, resolution) ==
    /\ row.id = id
    /\ row.status = "pending"

\* WHERE id = ? AND status = 'pending'
\*   AND (? = 'timeout' OR datetime(deadline) > datetime('now'))
applies(row, id, resolution) ==
    /\ row.id = id
    /\ row.status = "pending"
    /\ resolution.status = "timeout" \/ row.deadline > now

\* SqliteDatabaseAdapter.resolveApprovalRequest: the table afterwards and
\* result.changes > 0
resolveApprovalRequest(rows, id, resolution) ==
    [rows |-> [i \in 1..Len(rows) |->
                  IF applies(rows[i], id, resolution)
                  THEN resolvedRow(rows[i], resolution) ELSE rows[i]],
     changed |-> \E i \in 1..Len(rows) : applies(rows[i], id, resolution)]

\* SqliteDatabaseAdapter.getApprovalRequest: <<>> is null
getApprovalRequest(rows, id) ==
    SelectSeq(rows, LAMBDA r : r.id = id)

\* ORDER BY created_at DESC, rowid DESC: the rowids of the table in that order
RECURSIVE listOrder(_, _, _)
listOrder(rows, i, acc) ==
    IF i > Len(rows) THEN acc
    ELSE LET before == { j \in 1..Len(acc) : rows[acc[j]].createdAt > rows[i].createdAt }
         IN listOrder(rows, i + 1,
                      SubSeq(acc, 1, Cardinality(before)) \o <<i>>
                         \o SubSeq(acc, Cardinality(before) + 1, Len(acc)))

\* SqliteDatabaseAdapter.listApprovalRequests without a filter
listApprovalRequests(rows) ==
    [k \in 1..Len(rows) |-> rows[listOrder(rows, 1, <<>>)[k]]]

\* approval.status === 'pending' && new Date(approval.deadline) < now
overdue(approval, at) ==
    approval.status = "pending" /\ approval.deadline < at

EventTypeOf(status) ==
    IF status = "approved" THEN "approval.granted"
    ELSE IF status = "rejected" THEN "approval.rejected"
    ELSE "approval.timeout"

\* the event resolveApproval emits for the record it has re-read
resolutionEvent(approval) ==
    Event(EventTypeOf(approval.status), approval.traceId, approval.agentId, NoString,
          [EventData EXCEPT !.tool = approval.tool, !.approvalId = approval.id])

\* Faulty audit record that files every resolution as a timeout denial
resolutionAuditAsTimeout(approval) ==
    AuditEventInput(approval.traceId, now, approval.agentId, approval.tool, approval.params,
                    "denied", "Approval request timed out", "approval_timeout")

\* the audit record resolveApproval writes for the record it has re-read
resolutionAudit(approval) ==
    AuditEventInput(approval.traceId, now, approval.agentId, approval.tool, approval.params,
                    IF approval.status = "approved" THEN "allowed" ELSE "denied",
                    IF approval.status = "timeout" THEN "Approval request timed out"
                    ELSE "Approval " \o approval.status \o " by " \o
                         (IF approval.approver = NoString THEN "unknown"
                          ELSE approval.approver),
                    IF approval.status = "timeout" THEN "approval_timeout" ELSE NoString)

TimeoutResolution == [status |-> "timeout", approver |-> NoString, comment |-> NoString]

\* the ids handed to the approval operations: those of the stored requests
ApprovalIds == { approvals[i].id : i \in 1..Len(approvals) }

Resolutions ==
    { [status |-> st, approver |-> IF st = "timeout" THEN NoString ELSE "alice",
       comment |-> NoString] : st \in TerminalStatuses }

\* resolveApproval up to its first await: db.resolveApprovalRequest has run its
\* UPDATE; [op, approvals] afterwards
beginResolve(op, id, resolution) ==
    [op |-> [op EXCEPT !.pc = "updated", !.id = id, !.resolution = resolution,
                       !.changed = resolveApprovalRequest(approvals, id, resolution).changed,
                       !.won = IF resolveApprovalRequest(approvals, id, resolution).changed
                               THEN @ \cup {id} ELSE @],
     approvals |-> resolveApprovalRequest(approvals, id, resolution).rows]

\* Faulty return of resolveApproval that reports success to every caller
endResolveAlwaysTrue(op, resolved) ==
    IF op.kind = "resolve"
    THEN [op EXCEPT !.pc = "done", !.resolved = TRUE, !.returned = <<op.approval>>]
    ELSE [op EXCEPT !.pc = "resumed"]

\* resolveApproval returns { resolved, approval } to its caller: the program, or
\* the read that timed the record out
endResolve(op, resolved) ==
    IF op.kind = "resolve"
    THEN [op EXCEPT !.pc = "done", !.resolved = resolved,
                    !.returned = IF resolved THEN <<op.approval>> ELSE <<>>]
    ELSE [op EXCEPT !.pc = "resumed"]

\* positions from `from` on of the records of the first fetch that are overdue
overdueFrom(op, from) ==
    { k \in from..Len(op.results) : overdue(op.results[k], op.checkedAt) }

\* the loop of listApprovalRequests from position `from` up to its next await,
\* or to the re-fetch that is returned; [op, approvals] afterwards
sweep(op, from) ==
    IF overdueFrom(op, from) = {}
    THEN [op |-> [op EXCEPT !.pc = "done", !.returned = listApprovalRequests(approvals)],
          approvals |-> approvals]
    ELSE beginResolve([op EXCEPT !.idx = CHOOSE k \in overdueFrom(op, from) :
                                             \A j \in overdueFrom(op, from) : k <= j],
                      op.results[CHOOSE k \in overdueFrom(op, from) :
                                     \A j \in overdueFrom(op, from) : k <= j].id,
                      TimeoutResolution)

\* the effect of a step of operation o on the operation and the approvals table
Settle(o, next) ==
    /\ approvalOps' = [approvalOps EXCEPT ![o] = next.op]
    /\ approvals' = next.approvals

\* resolveApproval(id, resolution) from its call to its first await
ResolveStart(o, id, resolution) ==
    /\ cfg.approvals
    /\ approvalOps[o].pc = "idle"
    /\ \A d \in 1..(o - 1) : approvalOps[d].pc # "idle"
    /\ Settle(o, beginResolve([approvalOps[o] EXCEPT !.kind = "resolve"], id, resolution))
    /\ UNCHANGED <<peVars, store, bus, tenancy, ksLast, cfg, killSwitch, inlinePolicy, dbPolicy, calls, audit,
                   events, now, sql, tampered, ksOps>>

\* resolveApproval resumed after db.resolveApprovalRequest: a loser returns,
\* the winner re-reads the record
ResolveUpdated(o) ==
    /\ approvalOps[o].pc = "updated"
    /\ approvalOps' = [approvalOps EXCEPT ![o] =
          IF ~approvalOps[o].changed \/ getApprovalRequest(approvals, approvalOps[o].id) = <<>>
          THEN endResolve(approvalOps[o], FALSE)
          ELSE [approvalOps[o] EXCEPT !.pc = "fetched",
                     !.approval = getApprovalRequest(approvals, approvalOps[o].id)[1]]]
    /\ UNCHANGED <<peVars, store, bus, tenancy, ksLast, cfg, killSwitch, inlinePolicy, dbPolicy, calls, audit,
                   approvals, events, now, sql, tampered, ksOps>>

\* resolveApproval resumed after db.getApprovalRequest: the event is emitted and
\* db.writeAuditEvent is called, which reads the latest hash
ResolveFetched(o) ==
    /\ approvalOps[o].pc = "fetched"
    /\ events' = Append(events, resolutionEvent(approvalOps[o].approval))
    /\ approvalOps' = [approvalOps EXCEPT ![o].pc = "audit",
                          ![o].emitted = Append(@, approvalOps[o].approval.id),
                          ![o].auditEvent = resolutionAudit(approvalOps[o].approval),
                          ![o].previousHash = getLatestAuditHash(audit)]
    /\ UNCHANGED <<peVars, store, bus, tenancy, ksLast, cfg, killSwitch, inlinePolicy, dbPolicy, calls, audit,
                   approvals, now, sql, tampered, ksOps>>

\* writeAuditEvent resumed: INSERT, then resolveApproval returns resolved = true;
\* a failed write makes resolveApproval (and the read around it) reject
ResolveAudited(o) ==
    /\ approvalOps[o].pc = "audit"
    /\ \E ok \in BOOLEAN :
          IF ok
          THEN /\ audit' = Append(audit, auditRow(audit, approvalOps[o].auditEvent,
                                                  approvalOps[o].previousHash))
               /\ approvalOps' = [approvalOps EXCEPT ![o] =
                      endResolve([approvalOps[o] EXCEPT !.wrote = @ + 1], TRUE)]
          ELSE /\ approvalOps' = [approvalOps EXCEPT ![o].pc = "thrown"]
               /\ UNCHANGED audit
    /\ UNCHANGED <<peVars, store, bus, tenancy, ksLast, cfg, killSwitch, inlinePolicy, dbPolicy, calls,
                   approvals, events, now, sql, tampered, ksOps>>

\* getApprovalRequest(id) from its call to its first await
GetStart(o, id) ==
    /\ cfg.approvals
    /\ approvalOps[o].pc = "idle"
    /\ \A d \in 1..(o - 1) : approvalOps[d].pc # "idle"
    /\ approvalOps' = [approvalOps EXCEPT ![o].pc = "read", ![o].kind = "get", ![o].id = id,
                          ![o].results = getApprovalRequest(approvals, id)]
    /\ UNCHANGED <<peVars, store, bus, tenancy, ksLast, cfg, killSwitch, inlinePolicy, dbPolicy, calls, audit,
                   approvals, events, now, sql, tampered, ksOps>>

\* Faulty check that returns what was read without looking at the deadline
checkedNever(op) ==
    [op |-> [op EXCEPT !.pc = "done", !.returned = op.results],
     approvals |-> approvals]

\* getApprovalRequest resumed after db.getApprovalRequest, with checkedAt set:
\* null, the record as read, or the lazy timeout; [op, approvals] afterwards
checked(op) ==
    IF op.results # <<>> /\ overdue(op.results[1], op.checkedAt)
    THEN beginResolve(op, op.id, TimeoutResolution)
    ELSE [op |-> [op EXCEPT !.pc = "done", !.returned = op.results],
          approvals |-> approvals]

GetRead(o) ==
    /\ approvalOps[o].pc = "read"
    /\ approvalOps[o].kind = "get"
    /\ Settle(o, checked([approvalOps[o] EXCEPT !.checkedAt = now]))
    /\ UNCHANGED <<peVars, store, bus, tenancy, ksLast, cfg, killSwitch, inlinePolicy, dbPolicy, calls, audit,
                   events, now, sql, tampered, ksOps>>

\* listApprovalRequests() from its call to its first await
ListStart(o) ==
    /\ cfg.approvals
    /\ approvalOps[o].pc = "idle"
    /\ \A d \in 1..(o - 1) : approvalOps[d].pc # "idle"
    /\ approvalOps' = [approvalOps EXCEPT ![o].pc = "read", ![o].kind = "list",
                          ![o].results = listApprovalRequests(approvals)]
    /\ UNCHANGED <<peVars, store, bus, tenancy, ksLast, cfg, killSwitch, inlinePolicy, dbPolicy, calls, audit,
                   approvals, events, now, sql, tampered, ksOps>>

\* listApprovalRequests resumed after db.listApprovalRequests: const now = new Date()
\* and the loop up to its first await
ListSweep(o) ==
    /\ approvalOps[o].pc = "read"
    /\ approvalOps[o].kind = "list"
    /\ Settle(o, sweep([approvalOps[o] EXCEPT !.checkedAt = now], 1))
    /\ UNCHANGED <<peVars, store, bus, tenancy, ksLast, cfg, killSwitch, inlinePolicy, dbPolicy, calls, audit,
                   events, now, sql, tampered, ksOps>>

\* the read resumed after its resolveApproval(id, {status: 'timeout'}): the single
\* read returns the record re-read, the list goes on with its loop
resumed(op) ==
    IF op.kind = "get"
    THEN [op |-> [op EXCEPT !.pc = "done", !.returned = getApprovalRequest(approvals, op.id)],
          approvals |-> approvals]
    ELSE sweep(op, op.idx + 1)

ReadResumed(o) ==
    /\ approvalOps[o].pc = "resumed"
    /\ Settle(o, resumed(approvalOps[o]))
    /\ UNCHANGED <<peVars, store, bus, tenancy, ksLast, cfg, killSwitch, inlinePolicy, dbPolicy, calls, audit,
                   events, now, sql, tampered, ksOps>>

\* the clock, until a deadline set at the last tick of MaxTime has passed
Elapse ==
    /\ now < MaxTime + ApprovalTimeoutSeconds
    /\ now' = now + 1
    /\ UNCHANGED <<peVars, store, bus, tenancy, approvalOps, ksLast, cfg, killSwitch, inlinePolicy, dbPolicy,
                   calls, audit, approvals, events, sql, tampered, ksOps>>

\* a middleware over a store with approvals whose inline policy asks for one
InitApproval ==
    /\ PolicyEngineIdle
    /\ cfg = [hasDb |-> TRUE, approvals |-> TRUE]
    /\ killSwitch = KillSwitchInit
    /\ inlinePolicy = MainPolicy
    /\ dbPolicy = NoPolicy
    /\ calls = [c \in CallIds |-> IdleCall]
    /\ audit = <<>>
    /\ approvals = <<>>
    /\ events = <<>>
    /\ now = 0
    /\ sql = NoSql
    /\ tampered = 0
    /\ ksOps = 0
    /\ ksLast = NoKsCall
    /\ approvalOps = [o \in OpIds |-> IdleOp]
    /\ bus = NoBus
    /\ tenancy = NoTenancy
    /\ store = NoStore

NextApproval ==
    \/ \E c \in CallIds : EvaluateStart(c, "y")
    \/ \E c \in CallIds : EvaluateApprovalCreated(c)
    \/ \E o \in OpIds, id \in ApprovalIds, r \in Resolutions : ResolveStart(o, id, r)
    \/ \E o \in OpIds : ResolveUpdated(o)
    \/ \E o \in OpIds : ResolveFetched(o)
    \/ \E o \in OpIds : ResolveAudited(o)
    \/ \E o \in OpIds, id \in ApprovalIds : GetStart(o, id)
    \/ \E o \in OpIds : GetRead(o)
    \/ \E o \in OpIds : ListStart(o)
    \/ \E o \in OpIds : ListSweep(o)
    \/ \E o \in OpIds : ReadResumed(o)
    \/ Elapse

SpecApproval == InitApproval /\ [][NextApproval]_vars

-----------------------------------------------------------------------------
(* GovernanceEventEmitter                                                  *)

\* the listeners subscribed in the runs: one that returns, one that throws, one
\* that returns a promise (which resolves, rejects, or outlives the timeout)
Listeners == {"plain", "throws", "async"}

\* every variable but the emitter
middlewareVars == <<cfg, killSwitch, inlinePolicy, dbPolicy, calls, audit, approvals, events,
                    now, sql, tampered, ksOps, ksLast, approvalOps, tenancy, store>>

\* GovernanceEventEmitter.on
on(b, type, listener) == [b EXCEPT !.listeners[type] = Append(@, listener)]

\* Array.prototype.indexOf, 1-based (0: not found)
indexOf(xs, x) ==
    IF \E i \in 1..Len(xs) : xs[i] = x
    THEN CHOOSE i \in 1..Len(xs) : xs[i] = x /\ \A j \in 1..(i - 1) : xs[j] # x
    ELSE 0

\* GovernanceEventEmitter.off: existing.splice(index, 1)
off(b, type, listener) ==
    IF indexOf(b.listeners[type], listener) = 0
    THEN b
    ELSE [b EXCEPT !.listeners[type] =
             SubSeq(@, 1, indexOf(@, listener) - 1) \o
             SubSeq(@, indexOf(@, listener) + 1, Len(@))]

\* GovernanceEventEmitter.removeAllListeners(type?)
removeAllListeners(b, type) ==
    IF type # NoString
    THEN [b EXCEPT !.listeners[type] = <<>>]
    ELSE [b EXCEPT !.listeners = [t \in BusTypes |-> <<>>]]

\* Faulty dispatch that enters the listeners inside emit
scheduleInline(b, type, event) ==
    [b EXCEPT !.emissions = Append(@, [type |-> type, event |-> event,
                                       listeners |-> b.listeners[type]]),
              !.invoked = @ \o [i \in 1..Len(b.listeners[type]) |->
                                  [listener |-> b.listeners[type][i],
                                   emission |-> Len(b.emissions) + 1]]]

\* the loop of emit and emitEvent: one process.nextTick callback per listener
\* registered for the type now (the emission is recorded with that list)
schedule(b, type, event) ==
    [b EXCEPT !.emissions = Append(@, [type |-> type, event |-> event,
                                       listeners |-> b.listeners[type]]),
              !.queue = @ \o [i \in 1..Len(b.listeners[type]) |->
                                [listener |-> b.listeners[type][i],
                                 emission |-> Len(b.emissions) + 1, idx |-> i]]]

\* the warning the emitter logs
Warning(kind, type, listener) == [kind |-> kind, type |-> type, listener |-> listener]

\* traceId = this.traceIdResolver?.() inside try/catch: the emitter afterwards
resolveTraceId(b) ==
    IF b.resolver = "none" THEN b
    ELSE [b EXCEPT !.resolverCalls = @ + 1,
                   !.warnings = IF b.resolver = "throws"
                                THEN Append(@, Warning("traceIdResolver threw", NoString,
                                                       NoString))
                                ELSE @]

\* the trace id the resolver yields
ResolverTraceId == "trace-resolved"

resolvedTraceId(b) == IF b.resolver = "returns" THEN ResolverTraceId ELSE NoString

\* GovernanceEventEmitter.emit(type, data): an invalid type is logged and ignored;
\* without listeners for the type emit returns before it asks the resolver
\* (the emission is recorded with its empty list)
emit(b, type) ==
    IF type = NoString
    THEN [b EXCEPT !.warnings = Append(@, Warning("invalid", NoString, NoString))]
    ELSE IF b.listeners[type] = <<>>
    THEN schedule(b, type, Event(type, NoString, NoString, NoString, EventData))
    ELSE schedule(resolveTraceId(b), type,
                  Event(type, resolvedTraceId(b), NoString, NoString, EventData))

\* Faulty emitEvent that asks the resolver as emit does
emitEventResolving(b, event) ==
    IF event.type = NoString
    THEN [b EXCEPT !.warnings = Append(@, Warning("invalid", NoString, NoString))]
    ELSE schedule(resolveTraceId(b), event.type, event)

\* GovernanceEventEmitter.emitEvent(event)
emitEvent(b, event) ==
    IF event.type = NoString
    THEN [b EXCEPT !.warnings = Append(@, Warning("invalid", NoString, NoString))]
    ELSE schedule(b, event.type, event)

\* Faulty executeListener without the try/catch
executeListenerUnguarded(b, entry) ==
    IF entry.listener = "throws"
    THEN [b EXCEPT !.invoked = Append(@, [listener |-> entry.listener,
                                          emission |-> entry.emission]),
                   !.uncaught = TRUE]
    ELSE [b EXCEPT !.invoked = Append(@, [listener |-> entry.listener,
                                          emission |-> entry.emission]),
                   !.races = IF entry.listener = "async"
                             THEN Append(@, [listener |-> entry.listener,
                                             emission |-> entry.emission,
                                             state |-> "racing", promise |-> "pending"])
                             ELSE @]

\* Faulty executeListener that looks the listener up in the list as it is now
executeListenerLive(b, entry) ==
    IF entry.idx > Len(b.listeners[b.emissions[entry.emission].type])
    THEN b
    ELSE [b EXCEPT !.invoked =
             Append(@, [listener |-> b.listeners[b.emissions[entry.emission].type][entry.idx],
                        emission |-> entry.emission])]

\* GovernanceEventEmitter.executeListener: the listener is entered; a throw is
\* caught and logged; a returned promise is raced against the 100 ms timer
executeListener(b, entry) ==
    [b EXCEPT !.invoked = Append(@, [listener |-> entry.listener,
                                     emission |-> entry.emission]),
              !.warnings = IF entry.listener = "throws"
                           THEN Append(@, Warning("threw synchronously",
                                                  b.emissions[entry.emission].type,
                                                  entry.listener))
                           ELSE @,
              !.races = IF entry.listener = "async"
                        THEN Append(@, [listener |-> entry.listener,
                                        emission |-> entry.emission, state |-> "racing",
                                        promise |-> "pending"])
                        ELSE @]

\* Promise.race([result, timeout]).catch(...): the listener's promise settles
\* first (resolved, rejected) or the timer does (timedout), and then the
\* listener's promise is still pending
settled(b, i, how) ==
    [b EXCEPT !.races[i].state = how,
              !.races[i].promise = IF how = "timedout" THEN "pending" ELSE how,
              !.warnings = IF how # "resolved"
                           THEN Append(@, Warning("failed or timed out",
                                                  b.emissions[b.races[i].emission].type,
                                                  b.races[i].listener))
                           ELSE @]

\* Faulty late completion that reports the rejection of an abandoned listener
completedLateWarns(b, i, how) ==
    [b EXCEPT !.races[i].promise = how,
              !.warnings = IF how = "rejected"
                           THEN Append(@, Warning("failed or timed out",
                                                  b.emissions[b.races[i].emission].type,
                                                  b.races[i].listener))
                           ELSE @]

\* the promise of a listener settles after the race was lost to the timer:
\* the race has settled already, so nothing is logged
completedLate(b, i, how) == [b EXCEPT !.races[i].promise = how]

\* on(type, listener)
On(type, listener) ==
    /\ bus.subs < MaxSubs
    /\ bus' = [on(bus, type, listener) EXCEPT !.subs = @ + 1]
    /\ UNCHANGED <<peVars, middlewareVars>>

\* off(type, listener)
Off(type, listener) ==
    /\ bus.subs < MaxSubs
    /\ bus' = [off(bus, type, listener) EXCEPT !.subs = @ + 1]
    /\ UNCHANGED <<peVars, middlewareVars>>

\* removeAllListeners(type) and removeAllListeners()
RemoveAllListeners(type) ==
    /\ bus.subs < MaxSubs
    /\ bus' = [removeAllListeners(bus, type) EXCEPT !.subs = @ + 1]
    /\ UNCHANGED <<peVars, middlewareVars>>

\* emit(type)
Emit(type) ==
    /\ bus.emits < MaxEmits
    /\ ~bus.uncaught
    /\ bus' = [emit(bus, type) EXCEPT !.emits = @ + 1,
                                      !.last = [op |-> "emit", type |-> type]]
    /\ UNCHANGED <<peVars, middlewareVars>>

\* emitEvent(event)
EmitEvent(type) ==
    /\ bus.emits < MaxEmits
    /\ ~bus.uncaught
    /\ bus' = [emitEvent(bus, Event(type, generateTraceId(1), "agent-1", NoString, EventData))
               EXCEPT !.emits = @ + 1, !.last = [op |-> "emitEvent", type |-> type]]
    /\ UNCHANGED <<peVars, middlewareVars>>

\* the next process.nextTick callback runs
Dispatch ==
    /\ bus.queue # <<>>
    /\ ~bus.uncaught
    /\ bus' = executeListener([bus EXCEPT !.queue = Tail(@)], Head(bus.queue))
    /\ UNCHANGED <<peVars, middlewareVars>>

\* the promise an async listener returned resolves or rejects within the timeout
ListenerSettles(i, how) ==
    /\ i \in 1..Len(bus.races)
    /\ bus.races[i].state = "racing"
    /\ bus' = settled(bus, i, how)
    /\ UNCHANGED <<peVars, middlewareVars>>

\* the 100 ms timer of a race fires first
ListenerTimesOut(i) ==
    /\ i \in 1..Len(bus.races)
    /\ bus.races[i].state = "racing"
    /\ bus' = settled(bus, i, "timedout")
    /\ UNCHANGED <<peVars, middlewareVars>>

\* the promise of an abandoned listener resolves or rejects in the end
ListenerCompletesLate(i, how) ==
    /\ i \in 1..Len(bus.races)
    /\ bus.races[i].state = "timedout"
    /\ bus.races[i].promise = "pending"
    /\ bus' = completedLate(bus, i, how)
    /\ UNCHANGED <<peVars, middlewareVars>>

NextEmitter ==
    \/ \E type \in BusTypes, l \in Listeners : On(type, l)
    \/ \E type \in BusTypes, l \in Listeners : Off(type, l)
    \/ \E type \in BusTypes \cup {NoString} : RemoveAllListeners(type)
    \/ \E type \in BusTypes \cup {NoString} : Emit(type)
    \/ \E type \in BusTypes \cup {NoString} : EmitEvent(type)
    \/ Dispatch
    \/ \E i \in 1..(MaxEmits * MaxSubs), how \in {"resolved", "rejected"} : ListenerSettles(i, how)
    \/ \E i \in 1..(MaxEmits * MaxSubs) : ListenerTimesOut(i)

\* an emitter on its own: no middleware is in use
InitEmitter == PolicyEngineIdle /\ OrchIdle

SpecEmitter == InitEmitter /\ [][NextEmitter]_vars

\* listeners that outlive the timeout: subscriptions, emissions, races and the
\* late completion of abandoned listeners
InitAbandon == PolicyEngineIdle /\ OrchIdle

NextAbandon ==
    \/ \E type \in BusTypes, l \in Listeners : On(type, l)
    \/ \E type \in BusTypes : Emit(type)
    \/ Dispatch
    \/ \E i \in 1..(MaxEmits * MaxSubs), how \in {"resolved", "rejected"} : ListenerSettles(i, how)
    \/ \E i \in 1..(MaxEmits * MaxSubs) : ListenerTimesOut(i)
    \/ \E i \in 1..(MaxEmits * MaxSubs), how \in {"resolved", "rejected"} :
          ListenerCompletesLate(i, how)

SpecAbandon == InitAbandon /\ [][NextAbandon]_vars

\* the traceIdResolver handed to the constructor: none, one that returns a
\* trace id, one that throws
Resolvers == {"none", "returns", "throws"}

InitResolver ==
    /\ PolicyEngineIdle
    /\ MiddlewareIdle
    /\ bus \in { [NoBus EXCEPT !.resolver = r] : r \in Resolvers }

\* emit and emitEvent on emitters with and without a resolver
NextResolver ==
    \/ \E type \in BusTypes, l \in Listeners : On(type, l)
    \/ \E type \in BusTypes \cup {NoString} : Emit(type)
    \/ \E type \in BusTypes \cup {NoString} : EmitEvent(type)
    \/ Dispatch

SpecResolver == InitResolver /\ [][NextResolver]_vars

-----------------------------------------------------------------------------
(* Stored policies and their version history                               *)

MaxStoreOps == 3       \* writePolicy and rollbackPolicy calls

MaxPolicyRules == 1000

PolicyVersions == {"1.0", "2.0"}

\* what writePolicy is handed: name, version, rules
PolicyInput(name, version, rules) == [name |-> name, version |-> version, rules |-> rules]

\* policySchema.parse(policy)
policySchemaOk(policy) ==
    /\ policy.name # NoString
    /\ policy.version # NoString
    /\ Len(policy.rules) >= 1
    /\ Len(policy.rules) <= MaxPolicyRules

PolicyRow(version, rules) == [present |-> TRUE, version |-> version, rules |-> rules]

PolicyVersion(id, name, row) ==
    [id |-> id, policyName |-> name, version |-> row.version, rules |-> row.rules]

\* SqliteDatabaseAdapter.getPolicyVersion: the ids of the rows with that name and id
getPolicyVersion(st, policyName, versionId) ==
    { i \in 1..Len(st.versions) :
         st.versions[i].policyName = policyName /\ st.versions[i].id = versionId }

\* SqliteDatabaseAdapter.writePolicy: SELECT the row of the name, INSERT it into
\* policy_versions when there is one, then upsert the new row. Each statement
\* commits on its own; failsAt is the statement that throws
\* ("none", "snapshot", "upsert")
sqlWritePolicy(st, policy, failsAt) ==
    IF st.policies[policy.name].present /\ failsAt = "snapshot"
    THEN st
    ELSE IF failsAt = "upsert"
    THEN [st EXCEPT !.versions =
                       IF st.policies[policy.name].present
                       THEN Append(@, PolicyVersion(Len(st.versions) + 1, policy.name,
                                                    st.policies[policy.name]))
                       ELSE @]
    ELSE [st EXCEPT !.versions =
                       IF st.policies[policy.name].present
                       THEN Append(@, PolicyVersion(Len(st.versions) + 1, policy.name,
                                                    st.policies[policy.name]))
                       ELSE @,
                    !.policies[policy.name] = PolicyRow(policy.version, policy.rules),
                    !.overwritten =
                       IF st.policies[policy.name].present
                       THEN Append(@, [policyName |-> policy.name,
                                       version |-> st.policies[policy.name].version,
                                       rules |-> st.policies[policy.name].rules])
                       ELSE @]

\* whether db.writePolicy throws
sqlWritePolicyThrows(st, policy, failsAt) ==
    \/ failsAt = "upsert"
    \/ failsAt = "snapshot" /\ st.policies[policy.name].present

\* GovernanceMiddleware.writePolicy(policy)
WritePolicy(policy, failsAt) ==
    /\ store.ops < MaxStoreOps
    /\ IF ~policySchemaOk(policy)
       THEN /\ store' = [store EXCEPT !.ops = @ + 1,
                                      !.last = [op |-> "writePolicy", name |-> policy.name,
                                                threw |-> "INVALID_POLICY"]]
            /\ UNCHANGED events
       ELSE IF ~cfg.hasDb
       THEN /\ store' = [store EXCEPT !.ops = @ + 1,
                                      !.last = [op |-> "writePolicy", name |-> policy.name,
                                                threw |-> "DATABASE_REQUIRED"]]
            /\ UNCHANGED events
       ELSE IF sqlWritePolicyThrows(store, policy, failsAt)
       THEN /\ store' = [sqlWritePolicy(store, policy, failsAt)
                         EXCEPT !.ops = @ + 1,
                                !.last = [op |-> "writePolicy", name |-> policy.name,
                                          threw |-> "SqliteError"]]
            /\ UNCHANGED events
       ELSE /\ store' = [sqlWritePolicy(store, policy, failsAt)
                         EXCEPT !.ops = @ + 1,
                                !.last = [op |-> "writePolicy", name |-> policy.name,
                                          threw |-> NoString]]
            /\ events' = Append(events,
                                Event("policy.updated", NoString, NoString, NoString,
                                      [policyName |-> policy.name,
                                       version |-> policy.version]))
    /\ UNCHANGED <<peVars, cfg, killSwitch, inlinePolicy, dbPolicy, calls, audit, approvals,
                   now, sql, tampered, ksOps, ksLast, approvalOps, bus, tenancy>>

\* the policy rollbackPolicy builds from the stored version
rollbackTarget(version) == PolicyInput(version.policyName, version.version, version.rules)

\* GovernanceMiddleware.rollbackPolicy(policyName, versionId): the stored
\* version is written back through db.writePolicy, which snapshots the current row
RollbackPolicy(policyName, versionId, failsAt) ==
    /\ store.ops < MaxStoreOps
    /\ IF ~cfg.hasDb
       THEN /\ store' = [store EXCEPT !.ops = @ + 1,
                                      !.last = [op |-> "rollbackPolicy", name |-> policyName,
                                                threw |-> "DATABASE_REQUIRED"]]
            /\ UNCHANGED events
       ELSE IF getPolicyVersion(store, policyName, versionId) = {}
       THEN /\ store' = [store EXCEPT !.ops = @ + 1,
                                      !.last = [op |-> "rollbackPolicy", name |-> policyName,
                                                threw |-> "VERSION_NOT_FOUND"]]
            /\ UNCHANGED events
       ELSE \E i \in getPolicyVersion(store, policyName, versionId) :
              IF sqlWritePolicyThrows(store, rollbackTarget(store.versions[i]), failsAt)
              THEN /\ store' = [sqlWritePolicy(store, rollbackTarget(store.versions[i]),
                                               failsAt)
                                EXCEPT !.ops = @ + 1,
                                       !.last = [op |-> "rollbackPolicy", name |-> policyName,
                                                 threw |-> "SqliteError"]]
                   /\ UNCHANGED events
              ELSE /\ store' = [sqlWritePolicy(store, rollbackTarget(store.versions[i]),
                                               failsAt)
                                EXCEPT !.ops = @ + 1,
                                       !.last = [op |-> "rollbackPolicy", name |-> policyName,
                                                 threw |-> NoString]]
                   /\ events' = Append(events,
                                       Event("policy.updated", NoString, NoString, NoString,
                                             [policyName |-> policyName,
                                              version |-> store.versions[i].version,
                                              action |-> "rollback",
                                              fromVersionId |-> versionId]))
    /\ UNCHANGED <<peVars, cfg, killSwitch, inlinePolicy, dbPolicy, calls, audit, approvals,
                   now, sql, tampered, ksOps, ksLast, approvalOps, bus, tenancy>>

\* the policies handed to writePolicy: two versions and two rule lists per
\* name, and one policy that the schema rejects (no rules)
WrittenPolicies ==
    { PolicyInput(n, v, r) : n \in PolicyNames, v \in PolicyVersions,
                             r \in {MainPolicy.rules, StoredPolicy.rules} }
    \cup { PolicyInput("main", "1.0", <<>>) }

StatementFailures == {"none", "snapshot", "upsert"}

\* a middleware with or without a store, the tables empty
InitStore ==
    /\ PolicyEngineIdle
    /\ cfg \in { [hasDb |-> b, approvals |-> FALSE] : b \in BOOLEAN }
    /\ killSwitch = KillSwitchInit
    /\ inlinePolicy = NoPolicy
    /\ dbPolicy = NoPolicy
    /\ calls = [c \in CallIds |-> IdleCall]
    /\ audit = <<>>
    /\ approvals = <<>>
    /\ events = <<>>
    /\ now = 0
    /\ sql = NoSql
    /\ tampered = 0
    /\ ksOps = 0
    /\ ksLast = NoKsCall
    /\ approvalOps = [o \in OpIds |-> IdleOp]
    /\ bus = NoBus
    /\ tenancy = NoTenancy
    /\ store = NoStore

NextStore ==
    \/ \E policy \in WrittenPolicies, failsAt \in StatementFailures :
          WritePolicy(policy, failsAt)
    \/ \E n \in PolicyNames, id \in 1..MaxStoreOps, failsAt \in StatementFailures :
          RollbackPolicy(n, id, failsAt)

SpecStore == InitStore /\ [][NextStore]_vars

-----------------------------------------------------------------------------
(* Properties of the policy engine                                         *)

Matches(policy, request) == findMatchingRules(policy, request).matches
MatchIdx(policy, request) == 1..Len(Matches(policy, request))
Evaluated == peOp # "init"

\* a tool-matching rule whose condition evaluation throws
ConditionThrows(policy, request) ==
    /\ policy.rulesOk
    /\ \E i \in 1..Len(policy.rules) :
          /\ policy.rules[i].tool = request.tool \/ policy.rules[i].tool = "*"
          /\ evaluateCondition(policy.rules[i].condition, request.params) = "throw"

\* C2: a null policy, a rules list that is not a list, or a throwing condition
\* evaluation always yields deny.
C2_FailSecureFloor ==
    Evaluated =>
        ((pePolicy.isNull \/ ~pePolicy.rulesOk \/ ConditionThrows(pePolicy, peRequest))
            => (~peResult.allowed /\ peResult.appliedRules = <<>>))

C2_Witness ==
    /\ Evaluated
    /\ ConditionThrows(pePolicy, peRequest)
    /\ \E i \in 1..Len(pePolicy.rules) :
          /\ pePolicy.rules[i].name = "wild-allow"
    /\ ~peResult.allowed

TopSpecificity(policy, request) ==
    LET ms == Matches(policy, request)
    IN CHOOSE s \in 0..2 : /\ \E i \in 1..Len(ms) : ms[i].specificity = s
                           /\ \A i \in 1..Len(ms) : ms[i].specificity <= s

\* C7 as stated: any two matching rules of equal specificity and opposite
\* effects force deny.
C7_AnyTieDenies ==
    (Evaluated /\ ~findMatchingRules(pePolicy, peRequest).threw) =>
        LET ms == Matches(pePolicy, peRequest)
        IN (\E i, j \in 1..Len(ms) :
                /\ ms[i].specificity = ms[j].specificity
                /\ ms[i].rule.effect = "deny" /\ ms[j].rule.effect = "allow")
            => ~peResult.allowed

\* C7 amended: when the matching rules of the highest specificity include both
\* a deny and an allow, the decision is deny.
C7_TopTieDenies ==
    (Evaluated /\ ~findMatchingRules(pePolicy, peRequest).threw) =>
        LET ms == Matches(pePolicy, peRequest)
        IN (\E i, j \in 1..Len(ms) :
                /\ ms[i].specificity = TopSpecificity(pePolicy, peRequest)
                /\ ms[j].specificity = TopSpecificity(pePolicy, peRequest)
                /\ ms[i].rule.effect = "deny" /\ ms[j].rule.effect = "allow")
            => (~peResult.allowed /\ peResult.appliedRules[1].effect = "deny")

C7_Witness ==
    /\ Evaluated
    /\ pePolicy.rulesOk
    /\ Len(pePolicy.rules) = 2
    /\ pePolicy.rules[1].name = "allow-x" /\ pePolicy.rules[2].name = "deny-x"
    /\ peRequest.tool = "x"
    /\ ~peResult.allowed /\ peResult.reason = "No writes"

\* what a caller sees of a decision: allow, deny or requires-approval, and the reason
Outcome(result) ==
    [allowed |-> result.allowed,
     reason |-> result.reason,
     requiresApproval |-> /\ result.allowed
                          /\ Len(result.appliedRules) > 0
                          /\ result.appliedRules[1].requireApproval]

\* C8: evaluating a permutation of the rules gives the same decision and reason.
C8_OrderIndependent ==
    peOp = "permute" => Outcome(peResult) = Outcome(pePrev.result)

\* the allow/deny decision alone does not depend on the order
C8_DecisionOrderIndependent ==
    peOp = "permute" => peResult.allowed = pePrev.result.allowed

\* C9: a well-formed rule of lower specificity than the winner, inserted
\* anywhere, leaves the winner and the outcome unchanged.
C9_SpecificityMonotone ==
    (/\ peOp = "insert"
     /\ Len(pePrev.result.appliedRules) > 0
     /\ peInserted \in WellFormedRules
     /\ computeSpecificity(peInserted) < TopSpecificity(pePrev.policy, peRequest))
        => /\ Outcome(peResult) = Outcome(pePrev.result)
           /\ peResult.appliedRules[1] = pePrev.result.appliedRules[1]

C9_Witness ==
    /\ peOp = "insert"
    /\ Len(pePrev.result.appliedRules) = 1
    /\ pePrev.result.appliedRules[1].ruleName = "deny-etc"
    /\ peInserted.name = "wild-allow"
    /\ Len(peResult.appliedRules) = 2
    /\ ~peResult.allowed /\ peResult.reason = "Forbidden path"

-----------------------------------------------------------------------------
(* Properties of the orchestrator and the audit store                      *)

\* C1: an evaluate call that starts while the kill switch is active for the
\* orchestrator's scope is denied with no applied rules, the policy engine is
\* not invoked and the store is not asked for a policy, whatever policy is set
\* or stored
C1_KillSwitchShortCircuit ==
    \A c \in CallIds :
        calls[c].ksActiveAtStart =>
            /\ ~calls[c].engineInvoked
            /\ ~calls[c].askedPolicy
            /\ calls[c].pc \in {"audit", "done"}
            /\ calls[c].result.allowed = FALSE
            /\ calls[c].result.appliedRules = <<>>
            /\ calls[c].result.reason = KillSwitchReason

C1_Witness ==
    \E c \in CallIds :
        /\ calls[c].ksActiveAtStart
        /\ calls[c].pc = "done"
        /\ cfg.hasDb
        /\ inlinePolicy = NoPolicy
        /\ dbPolicy = StoredPolicy

\* C3: whatever audit writes have been made, verifyAuditChain reports the log
\* valid with totalEvents and verifiedEvents equal to the number of records
C3_ChainVerifies ==
    verifyAuditChain(audit) = ChainReport(TRUE, 0, Len(audit), Len(audit))

\* C4: the previous_hash of every stored record is the hash of the record with
\* the preceding id, and the null sentinel for the first record
C4_LinksFollowIds ==
    \A i \in 1..Len(audit) :
        audit[i].previous_hash = IF i = 1 THEN NullHash ELSE audit[i - 1].hash

\* C5: an UPDATE or DELETE of an audit record fails with the append-only
\* message and changes nothing; every step leaves the stored records as they
\* are and at most appends to them
C5_AppendOnly ==
    [][ /\ Len(audit') >= Len(audit)
        /\ \A i \in 1..Len(audit) : audit'[i] = audit[i]
        /\ sql' # sql => /\ sql'.error \in {AppendOnlyUpdate, AppendOnlyDelete}
                         /\ audit' = audit ]_vars

C5_Witness ==
    /\ sql.op = "UPDATE"
    /\ sql.error = AppendOnlyUpdate
    /\ \E i \in 1..Len(audit) : audit[i].result = "denied"

\* C6: once the stored hash of record k of an intact chain of at least two
\* records has been replaced by another value, verifyAuditChain reports
\* valid = false, brokenAt = k and verifiedEvents = k - 1
C6_TamperDetected ==
    (tampered # 0 /\ Len(audit) >= 2) =>
        verifyAuditChain(audit) = ChainReport(FALSE, tampered, Len(audit), tampered - 1)

C6_Witness ==
    /\ tampered = 2
    /\ Len(audit) >= 2

ApprovalsOf(c) ==
    { i \in 1..Len(approvals) : approvals[i].traceId = calls[c].request.traceId }

\* the engine's winner for call c is an allow rule with requireApproval
ApprovalWon(c) ==
    /\ calls[c].engineInvoked
    /\ calls[c].engineResult.allowed
    /\ calls[c].engineResult.appliedRules[1].requireApproval

\* C10: when the winning rule is an allow rule with requireApproval and the
\* store supports approvals, evaluate never yields allowed = true; when it
\* returns, the result has allowed = false, requiresApproval = true, an
\* approvalId and the deadline, and exactly one approval record exists for the
\* call: pending, with that id and that deadline
C10_ApprovalInterception ==
    \A c \in CallIds :
        (ApprovalWon(c) /\ cfg.approvals) =>
            /\ calls[c].pc \in {"approval", "done", "thrown"}
            /\ ~calls[c].result.allowed
            /\ calls[c].pc = "done" =>
                  /\ calls[c].result.requiresApproval
                  /\ calls[c].result.approvalId # NoString
                  /\ calls[c].result.deadline # NoTime
                  /\ Cardinality(ApprovalsOf(c)) = 1
                  /\ \A i \in ApprovalsOf(c) :
                        /\ approvals[i].id = calls[c].result.approvalId
                        /\ approvals[i].status = "pending"
                        /\ approvals[i].deadline = calls[c].result.deadline
                        /\ approvals[i].deadline = approvals[i].createdAt + ApprovalTimeoutSeconds

C10_Witness ==
    \E c \in CallIds :
        /\ ApprovalWon(c) /\ cfg.approvals
        /\ calls[c].pc = "done"
        /\ calls[c].result.approvalId # NoString

\* positions in the event log of the events of call c with a type in types
EventsOf(c, types) ==
    { i \in 1..Len(events) : /\ events[i].traceId = calls[c].request.traceId
                             /\ events[i].type \in types }

\* C11: in the approval-interception path evaluate emits neither
\* tool_call.allowed nor tool_call.denied for the call, and by the time it
\* returns it has emitted approval.requested, once, with the approval's id
C11_ApprovalRequestedOnly ==
    \A c \in CallIds :
        (ApprovalWon(c) /\ cfg.approvals) =>
            /\ EventsOf(c, {"tool_call.allowed", "tool_call.denied"}) = {}
            /\ calls[c].pc = "done" =>
                  /\ Cardinality(EventsOf(c, {"approval.requested"})) = 1
                  /\ \A i \in EventsOf(c, {"approval.requested"}) :
                        events[i].data.approvalId = calls[c].result.approvalId

C11_Witness ==
    \E c \in CallIds :
        /\ ApprovalWon(c) /\ cfg.approvals
        /\ calls[c].pc = "done"
        /\ EventsOf(c, {"approval.requested"}) # {}
        /\ Len(events) >= 2

-----------------------------------------------------------------------------
(* Properties of the approval workflow                                     *)

\* C12: the status of an approval request changes only from pending and only
\* to approved, rejected or timeout; once it is terminal no step of any
\* resolveApproval, getApprovalRequest or listApprovalRequests changes the
\* record (status, approver, comment) again
C12_ResolvedOnce ==
    [][ \A i \in 1..Len(approvals) :
           /\ approvals'[i].status # approvals[i].status =>
                 /\ approvals[i].status = "pending"
                 /\ approvals'[i].status \in TerminalStatuses
           /\ approvals[i].status \in TerminalStatuses => approvals'[i] = approvals[i]
      ]_vars

C12_Witness ==
    \E i \in 1..Len(approvals), o \in OpIds :
        /\ approvals[i].status \in {"approved", "rejected"}
        /\ approvalOps[o].kind = "resolve" /\ approvalOps[o].pc = "done"
        /\ approvalOps[o].id = approvals[i].id
        /\ approvalOps[o].resolution.status # approvals[i].status
        /\ ~approvalOps[o].resolved

\* the operations whose UPDATE resolved the request id
Winners(id) == { o \in OpIds : id \in approvalOps[o].won }

ResolutionEvents(id) ==
    { k \in 1..Len(events) :
         /\ events[k].type \in {"approval.granted", "approval.rejected", "approval.timeout"}
         /\ events[k].data.approvalId = id }

AuditRowsOf(traceId) == { k \in 1..Len(audit) : audit[k].trace_id = traceId }

C14_AppliedOnlyInTime ==
    [][ \A i \in 1..Len(approvals) :
           approvals'[i] # approvals[i] =>
              /\ approvals[i].status = "pending"
              /\ approvals'[i].status = "timeout" \/ approvals[i].deadline > now
      ]_vars

C14_Witness ==
    \E i \in 1..Len(approvals), o \in OpIds :
        /\ approvals[i].status = "pending"
        /\ approvalOps[o].kind = "resolve" /\ approvalOps[o].pc = "done"
        /\ approvalOps[o].id = approvals[i].id
        /\ approvalOps[o].resolution.status \in {"approved", "rejected"}
        /\ ~approvalOps[o].resolved

\* the reads (getApprovalRequest, listApprovalRequests) that have returned
ReadsDone ==
    { o \in OpIds : approvalOps[o].kind \in {"get", "list"} /\ approvalOps[o].pc = "done" }

Resolved(id) ==
    { o \in Winners(id) : approvalOps[o].id = id => approvalOps[o].pc \in {"done", "resumed"} }

-----------------------------------------------------------------------------
(* Properties of evaluate under persistence failures                       *)

\* the calls whose audit write has thrown
AuditFailed == { c \in CallIds : calls[c].outcome = "audit_error" }

\* C17: when the audit write of evaluate throws, on the policy path or on the
\* kill-switch path, the call returns the decision it had before the write
\* (the engine's result, or the kill-switch denial), no audit record of the
\* call is stored, and an audit.write_failure event naming the context
\* (policy_evaluation or killswitch_denial) has been emitted for the call
C17_AuditFailureKeepsDecision ==
    \A c \in AuditFailed :
        /\ calls[c].pc = "done"
        /\ calls[c].result =
              IF calls[c].engineInvoked
              THEN calls[c].engineResult
              ELSE EvaluateResult(FALSE, calls[c].request.traceId, KillSwitchReason, <<>>)
        /\ calls[c].result.allowed = (calls[c].auditEvent.result = "allowed")
        /\ AuditRowsOf(calls[c].request.traceId) = {}
        /\ Cardinality(EventsOf(c, {"audit.write_failure"})) = 1
        /\ \A i \in EventsOf(c, {"audit.write_failure"}) :
              events[i].data.context = IF calls[c].engineInvoked THEN "policy_evaluation"
                                       ELSE "killswitch_denial"

C17_Witness ==
    \E c \in AuditFailed, k \in AuditFailed :
        /\ calls[c].engineInvoked /\ calls[c].result.allowed
        /\ ~calls[k].engineInvoked /\ ~calls[k].result.allowed

\* the calls whose policy resolution has thrown
ResolutionThrew == { c \in CallIds : calls[c].outcome = "policy_error" }

\* C18: when db.getActivePolicy throws, evaluate returns a denial with the
\* fail-secure reason and no applied rules, has emitted tool_call.denied with
\* that reason (and no other event), has not invoked the engine, and neither
\* attempts nor stores an audit record for the call
C18_ResolutionFailureDenies ==
    \A c \in ResolutionThrew :
        /\ calls[c].pc = "done"
        /\ calls[c].result = EvaluateResult(FALSE, calls[c].request.traceId,
                                            ResolutionFailed, <<>>)
        /\ ~calls[c].engineInvoked
        /\ calls[c].auditEvent = NoAuditEvent
        /\ AuditRowsOf(calls[c].request.traceId) = {}
        /\ Cardinality(EventsOf(c, {"tool_call.denied"})) = 1
        /\ \A i \in EventsOf(c, {"tool_call.denied"}) :
              events[i].data.reason = ResolutionFailed
        /\ EventsOf(c, {"tool_call.allowed", "audit.write_failure",
                        "approval.requested"}) = {}

C18_Witness ==
    \E c \in ResolutionThrew, k \in CallIds :
        /\ dbPolicy # NoPolicy
        /\ calls[k].pc = "done" /\ calls[k].askedPolicy /\ calls[k].engineInvoked
        /\ Len(audit) > 0

-----------------------------------------------------------------------------
(* Properties of policy resolution                                         *)

\* the engine's result for the request of call c under a policy, as the
\* middleware passes it on
DecisionUnder(call, policy) == engineResultOf(engineEvaluate(call.request, policy))

\* C19: a call that starts while an inline policy is set is decided by that
\* policy without asking the store; otherwise the store is asked (if there is
\* one) and the call is decided by the active policy it returned, or by the
\* default allow-all policy if it returned none or there is no store; so the
\* first call after clearPolicy falls back to the store or the default
C19_PolicyPrecedence ==
    [][ \A c \in CallIds :
           /\ (calls[c].pc = "idle" /\ calls'[c].pc # "idle"
                                    /\ ~isActive(killSwitch, NoString)) =>
                 IF inlinePolicy # NoPolicy
                 THEN /\ ~calls'[c].askedPolicy
                      /\ calls'[c].engineInvoked
                      /\ calls'[c].engineResult = DecisionUnder(calls'[c], inlinePolicy)
                 ELSE IF cfg.hasDb
                 THEN calls'[c].askedPolicy /\ ~calls'[c].engineInvoked
                 ELSE /\ calls'[c].engineInvoked
                      /\ calls'[c].engineResult =
                            DecisionUnder(calls'[c], defaultAllowAllPolicy)
           /\ (calls[c].pc = "policy" /\ calls'[c].pc # "policy" /\ ~calls[c].failed) =>
                 /\ calls[c].resolved = dbPolicy
                 /\ calls'[c].engineInvoked
                 /\ calls'[c].engineResult =
                       DecisionUnder(calls[c], IF dbPolicy # NoPolicy THEN dbPolicy
                                               ELSE defaultAllowAllPolicy)
      ]_vars

C19_Witness ==
    /\ cfg.hasDb /\ inlinePolicy = NoPolicy
    /\ calls[1].pc = "done" /\ ~calls[1].askedPolicy /\ calls[1].engineInvoked
    /\ calls[1].request.tool = "x" /\ ~calls[1].result.allowed
    /\ calls[2].pc = "done" /\ calls[2].askedPolicy /\ calls[2].engineInvoked
    /\ calls[2].request.tool = "x" /\ calls[2].result.allowed

-----------------------------------------------------------------------------
(* Properties of the kill switch                                           *)

\* C20: activate(reason, scope) on a scope that is already active changes
\* nothing: the scope stays active with the activation time and the reason of
\* the first activation, the other tier is untouched, and no event is emitted
C20_ActivateIdempotent ==
    [][ \A reason \in KsReasons, t \in AllScopes :
           (isActive(killSwitch, t) /\ ActivateCall(reason, t)) =>
              /\ getStatus(killSwitch', t) = getStatus(killSwitch, t)
              /\ killSwitch' = killSwitch
              /\ events' = events
      ]_vars

C20_Witness ==
    /\ ksLast.op = "activate" /\ ksLast.wasActive
    /\ getStatus(killSwitch, ksLast.tenantId).active
    /\ getStatus(killSwitch, ksLast.tenantId).reason # ksLast.reason
    /\ getStatus(killSwitch, ksLast.tenantId).activatedAt < now

\* C21: activate or reset on one scope (the global scope or a tenant) leaves
\* isActive and getStatus of every other scope as they were
C21_ScopesIndependent ==
    [][ \A t \in AllScopes, reason \in KsReasons :
           (ActivateCall(reason, t) \/ ResetCall(t, NoString)) =>
              \A u \in AllScopes \ {t} :
                 /\ isActive(killSwitch', u) = isActive(killSwitch, u)
                 /\ getStatus(killSwitch', u) = getStatus(killSwitch, u)
      ]_vars

C21_Witness ==
    /\ ksLast.op = "reset" /\ ksLast.wasActive
    /\ \E u \in AllScopes \ {ksLast.tenantId}, v \in AllScopes \ {ksLast.tenantId} :
          /\ isActive(killSwitch, u) /\ ~isActive(killSwitch, v)
    /\ ~isActive(killSwitch, ksLast.tenantId)

-----------------------------------------------------------------------------
(* Properties of evaluate under concurrency                                *)

\* positions of the activations of the global tier that no reset has followed
StandingActivations ==
    { k \in 1..Len(events) :
         /\ events[k].type = "killswitch.activated" /\ events[k].tenantId = NoString
         /\ \A i \in (k + 1)..Len(events) :
               ~(events[i].type = "killswitch.deactivated" /\ events[i].tenantId = NoString) }

\* C28: after an activation of the kill switch that is still standing, at most
\* one allowed decision is announced (and so returned) in that scope
C28_OneLateAllow ==
    \A k \in StandingActivations :
        Cardinality({ i \in (k + 1)..Len(events) : events[i].type = "tool_call.allowed" }) <= 1

\* the decision events of call c
DecisionEvents(c) == EventsOf(c, {"tool_call.allowed", "tool_call.denied"})

\* C29: a call whose audit write has been started has announced its decision
\* already: while the write is in flight, and whenever the call's audit
\* record or its audit.write_failure event exists, the one decision event of
\* the call is in the log, ahead of the failure event, and agrees with the
\* record handed to the write
C29_DecisionBeforeAudit ==
    \A c \in { d \in CallIds : calls[d].pc # "idle" } :
        (\/ calls[c].pc = "audit"
         \/ calls[c].auditEvent # NoAuditEvent
         \/ AuditRowsOf(calls[c].request.traceId) # {}
         \/ EventsOf(c, {"audit.write_failure"}) # {}) =>
           /\ Cardinality(DecisionEvents(c)) = 1
           /\ \A i \in DecisionEvents(c) :
                 /\ (events[i].type = "tool_call.allowed") = (calls[c].auditEvent.result = "allowed")
                 /\ \A j \in EventsOf(c, {"audit.write_failure"}) : i < j

C29_Witness ==
    \E c \in CallIds :
        /\ calls[c].pc = "audit"
        /\ AuditRowsOf(calls[c].request.traceId) = {}
        /\ \E i \in DecisionEvents(c) : events[i].type = "tool_call.allowed"

-----------------------------------------------------------------------------
(* Properties of the event emitter                                         *)

\* the listeners entered so far for emission e, in the order they were entered
RECURSIVE enteredFrom(_, _, _)
enteredFrom(b, e, i) ==
    IF i > Len(b.invoked) THEN <<>>
    ELSE (IF b.invoked[i].emission = e THEN <<b.invoked[i].listener>> ELSE <<>>)
         \o enteredFrom(b, e, i + 1)

Entered(e) == enteredFrom(bus, e, 1)

\* C23: a step in which emit or emitEvent is called and returns enters no
\* listener: listeners are entered only by the callbacks run afterwards
C23_EmitReturnsFirst ==
    [][ bus'.emits # bus.emits => bus'.invoked = bus.invoked ]_vars

C23_Witness ==
    /\ bus.queue = <<>>
    /\ \E e \in 1..Len(bus.emissions) :
          /\ Len(bus.emissions[e].listeners) = 2
          /\ Len(Entered(e)) = 2

\* C24: no error of a listener escapes the emitter, and once the callbacks of
\* an emission have run every listener of the emission has been entered,
\* whichever of them threw, rejected or timed out; each such failure is logged
C24_ListenerFailuresContained ==
    /\ ~bus.uncaught
    /\ \A e \in 1..Len(bus.emissions) :
          (\A k \in 1..Len(bus.queue) : bus.queue[k].emission # e) =>
             Len(Entered(e)) = Len(bus.emissions[e].listeners)
    /\ \A i \in 1..Len(bus.races) :
          bus.races[i].state \in {"rejected", "timedout"} =>
             \E w \in 1..Len(bus.warnings) :
                bus.warnings[w] = Warning("failed or timed out",
                                          bus.emissions[bus.races[i].emission].type,
                                          bus.races[i].listener)

C24_Witness ==
    \E e \in 1..Len(bus.emissions) :
        /\ bus.emissions[e].listeners = <<"throws", "async", "plain">>
        /\ Entered(e) = <<"throws", "async", "plain">>
        /\ \E i \in 1..Len(bus.races) :
              bus.races[i].emission = e /\ bus.races[i].state = "timedout"

\* C30: the listeners entered for an emission are those registered for its
\* type when emit was called, in that order: a prefix of that list while
\* callbacks are outstanding, the whole list afterwards, whatever on, off and
\* removeAllListeners did in between
C30_SnapshotPerEmission ==
    \A e \in 1..Len(bus.emissions) :
        /\ Len(Entered(e)) <= Len(bus.emissions[e].listeners)
        /\ Entered(e) = SubSeq(bus.emissions[e].listeners, 1, Len(Entered(e)))
        /\ (\A k \in 1..Len(bus.queue) : bus.queue[k].emission # e) =>
              Entered(e) = bus.emissions[e].listeners

C30_Witness ==
    \E e \in 1..Len(bus.emissions) :
        /\ bus.emissions[e].listeners # <<>>
        /\ Entered(e) = bus.emissions[e].listeners
        /\ bus.listeners[bus.emissions[e].type] # bus.emissions[e].listeners
        /\ bus.subs > Len(bus.emissions[e].listeners)

-----------------------------------------------------------------------------
(* Properties of tenant-scoped handles and of request handling              *)

\* C22: an evaluate call made while the orchestrator's emergency stop is in
\* effect is not allowed, whether it is made through the orchestrator or
\* through a handle derived from it with forTenant
C22_StopDeniesEveryHandle ==
    \A c \in CallIds :
        calls[c].ksActiveAtStart /\ calls[c].pc = "done" => ~calls[c].result.allowed

\* C27: once setPolicy or clearPolicy has been called through a tenant's handle,
\* a further step changes the policy of no other handle: the orchestrator and
\* the other tenant's handle evaluate against what they evaluated against
C27_ScopedPolicyIsolated ==
    [][ tenancy'.lastSet.via # NoString =>
           \A h \in AllScopes \ {tenancy'.lastSet.via} : policyOf(h)' = policyOf(h) ]_vars

\* setPolicy through t1's handle only: a call through it is denied by the
\* policy while calls through the orchestrator and t2's handle are allowed
C27_Witness ==
    /\ tenancy.lastSet = [op |-> "setPolicy", via |-> "t1"]
    /\ policyOf("t1") = MainPolicy
    /\ policyOf(NoString) = NoPolicy
    /\ policyOf("t2") = NoPolicy
    /\ calls[1].pc = "done" /\ calls[1].via = "t1" /\ calls[1].request.tool = "x"
    /\ calls[1].result.reason = "Forbidden"
    /\ calls[2].pc = "done" /\ calls[2].via = NoString /\ calls[2].request.tool = "x"
    /\ calls[2].result.allowed

\* the trace id of call c: the caller's, or the one generated for the call
TraceIdOf(c, call) == IF call.supplied # NoString THEN call.supplied ELSE generateTraceId(c)

\* C25: every event, audit record and approval record a step of an evaluate
\* call produces carries the trace id of the call, the caller's when the request
\* supplied one, and the result the call returns carries it too
C25_OneTraceId ==
    [][ \A c \in CallIds :
           calls'[c] # calls[c] /\ calls'[c].error = NoString =>
              /\ \A i \in (Len(events) + 1)..Len(events') :
                    events'[i].traceId = TraceIdOf(c, calls'[c])
              /\ \A i \in (Len(audit) + 1)..Len(audit') :
                    audit'[i].trace_id = TraceIdOf(c, calls'[c])
              /\ \A i \in (Len(approvals) + 1)..Len(approvals') :
                    approvals'[i].traceId = TraceIdOf(c, calls'[c])
              /\ calls'[c].pc = "done" => calls'[c].result.traceId = TraceIdOf(c, calls'[c]) ]_vars

\* a call with the caller's trace id that ended in an approval request and one
\* without that was decided and audited
C25_Witness ==
    /\ calls[1].pc = "done" /\ calls[1].supplied = "caller-1"
    /\ calls[1].result.requiresApproval /\ calls[1].result.traceId = "caller-1"
    /\ \E i \in 1..Len(approvals) : approvals[i].traceId = "caller-1"
    /\ \E i \in 1..Len(events) :
          events[i].type = "approval.requested" /\ events[i].traceId = "caller-1"
    /\ calls[2].pc = "done" /\ calls[2].supplied = NoString
    /\ calls[2].result.traceId = "trace-2"
    /\ \E i \in 1..Len(events) :
          events[i].type = "tool_call.denied" /\ events[i].traceId = "trace-2"
    /\ \E i \in 1..Len(audit) : audit[i].trace_id = "trace-2"

\* C26: an evaluate call whose request has an empty agentId or tool ends in a
\* GovernanceError with code INVALID_REQUEST in the step that makes it, which
\* adds no event, audit record or approval record, and the call does nothing
\* afterwards
C26_InvalidRequestRejected ==
    [][ \A c \in CallIds :
           /\ ( /\ calls[c].pc = "idle" /\ calls'[c].pc # "idle"
                /\ (calls'[c].request.agentId = "" \/ calls'[c].request.tool = "") )
              => /\ calls'[c].pc = "thrown" /\ calls'[c].error = "INVALID_REQUEST"
                 /\ events' = events /\ audit' = audit /\ approvals' = approvals
           /\ calls[c].error = "INVALID_REQUEST" => calls'[c] = calls[c] ]_vars

\* invalid requests made while the kill switch is active: nothing but the
\* activation has been announced or recorded
C26_Witness ==
    /\ killSwitch.globalActive
    /\ calls[1].error = "INVALID_REQUEST" /\ calls[1].request.agentId = ""
    /\ calls[2].error = "INVALID_REQUEST" /\ calls[2].request.tool = ""
    /\ Len(events) = 1 /\ events[1].type = "killswitch.activated"
    /\ audit = <<>> /\ approvals = <<>>

-----------------------------------------------------------------------------
(* Further properties of the orchestrator                                  *)

\* the calls that have been made
StartedCalls == { c \in CallIds : calls[c].pc # "idle" }

\* db.createApprovalRequest rejected for call c
CreateFailed(c) == calls[c].engineInvoked /\ calls[c].failed

\* C35: when createApprovalRequest throws, evaluate ends by that exception
\* without a result, and neither tool_call.allowed nor approval.requested is
\* emitted for the call, nor is an approval record left behind
C35_CreateFailurePropagates ==
    \A c \in StartedCalls :
        CreateFailed(c) =>
            /\ calls[c].pc \in {"approval", "thrown"}
            /\ calls[c].result = NoEvaluateResult
            /\ EventsOf(c, {"tool_call.allowed", "approval.requested"}) = {}
            /\ ApprovalsOf(c) = {}

C35_Witness ==
    \E c \in StartedCalls :
        /\ CreateFailed(c) /\ calls[c].pc = "thrown"
        /\ ApprovalWon(c) /\ cfg.approvals

\* C36: when the winning rule requires approval and the store has no approval
\* operations (or there is no store), evaluate returns at once with
\* allowed = false and requiresApproval = true, having emitted one
\* tool_call.denied with the fallback reason; it creates no approval record and
\* starts no audit write
C36_NoApprovalInfraDenies ==
    \A c \in StartedCalls :
        (ApprovalWon(c) /\ ~cfg.approvals) =>
            /\ calls[c].pc = "done"
            /\ ~calls[c].result.allowed
            /\ calls[c].result.requiresApproval
            /\ calls[c].result.reason = NoApprovalInfra
            /\ calls[c].result.approvalId = NoString
            /\ Cardinality(EventsOf(c, {"tool_call.denied"})) = 1
            /\ \A i \in EventsOf(c, {"tool_call.denied"}) :
                  events[i].data.reason = NoApprovalInfra
            /\ EventsOf(c, {"tool_call.allowed", "approval.requested",
                            "audit.write_failure"}) = {}
            /\ ApprovalsOf(c) = {}
            /\ calls[c].auditEvent = NoAuditEvent
            /\ AuditRowsOf(calls[c].request.traceId) = {}

\* the fallback with a store that takes audit records: of two finished calls
\* only the other one has a record
C36_Witness ==
    /\ \E c \in StartedCalls : ApprovalWon(c) /\ ~cfg.approvals /\ calls[c].pc = "done"
    /\ \A c \in CallIds : calls[c].pc = "done"
    /\ cfg.hasDb /\ Len(audit) = 1

\* the events that announce the outcome of call c
OutcomeEvents(c) == EventsOf(c, {"tool_call.allowed", "tool_call.denied", "approval.requested"})

\* C37: a call that has returned a result has emitted exactly one of
\* tool_call.allowed, tool_call.denied and approval.requested: allowed exactly
\* when the result is allowed, approval.requested exactly when the result
\* carries an approvalId, denied otherwise; a call still running has emitted at
\* most one
C37_OneDecisionEvent ==
    \A c \in StartedCalls :
        /\ Cardinality(OutcomeEvents(c)) <= 1
        /\ calls[c].pc = "done" =>
              /\ Cardinality(OutcomeEvents(c)) = 1
              /\ \A i \in OutcomeEvents(c) :
                    events[i].type =
                        IF calls[c].result.allowed THEN "tool_call.allowed"
                        ELSE IF calls[c].result.approvalId # NoString THEN "approval.requested"
                        ELSE "tool_call.denied"

\* a call denied by the kill switch and a call that ended in an approval
\* request, both returned
C37_Witness ==
    \E c \in StartedCalls, d \in StartedCalls :
        /\ calls[c].pc = "done" /\ calls[c].ksActiveAtStart
        /\ calls[d].pc = "done" /\ calls[d].result.approvalId # NoString
        /\ \E i \in OutcomeEvents(c) : events[i].type = "tool_call.denied"
        /\ \E i \in OutcomeEvents(d) : events[i].type = "approval.requested"

-----------------------------------------------------------------------------
(* Further properties of the approval workflow                             *)

\* no evaluate call and no approval operation is under way
ApprovalsQuiescent ==
    /\ \A c \in CallIds : calls[c].pc \in {"idle", "done", "thrown"}
    /\ \A o \in OpIds : approvalOps[o].pc \in {"idle", "done", "thrown"}

\* C38: once the calls made have all ended, every approval request in a
\* terminal status has exactly one audit record (that of its resolution) and
\* every pending request has none
C38_TerminalAuditedOnce ==
    ApprovalsQuiescent =>
        \A i \in 1..Len(approvals) :
            Cardinality(AuditRowsOf(approvals[i].traceId)) =
                IF approvals[i].status \in TerminalStatuses THEN 1 ELSE 0

-----------------------------------------------------------------------------
(* Further properties of the kill switch                                   *)

\* the kill-switch events emitted for a scope, in order
KsEventsOf(scope) ==
    SelectSeq(events, LAMBDA e : /\ e.type \in {"killswitch.activated", "killswitch.deactivated"}
                                 /\ e.tenantId = scope)

\* C39: the kill-switch events of each scope alternate, starting with
\* killswitch.activated; each killswitch.deactivated names as previous reason
\* the reason of the activation before it; and the scope is active exactly
\* when its last event is killswitch.activated, with that event's reason
C39_EventsAlternate ==
    \A scope \in AllScopes :
        /\ \A k \in 1..Len(KsEventsOf(scope)) :
              IF k % 2 = 1
              THEN KsEventsOf(scope)[k].type = "killswitch.activated"
              ELSE /\ KsEventsOf(scope)[k].type = "killswitch.deactivated"
                   /\ KsEventsOf(scope)[k].data.previousReason =
                         KsEventsOf(scope)[k - 1].data.reason
        /\ isActive(killSwitch, scope) = (Len(KsEventsOf(scope)) % 2 = 1)
        /\ isActive(killSwitch, scope) =>
              getStatus(killSwitch, scope).reason =
                  KsEventsOf(scope)[Len(KsEventsOf(scope))].data.reason

\* a scope stopped for one reason, reset, and stopped again for another
C39_Witness ==
    \E scope \in Tenants :
        /\ Len(KsEventsOf(scope)) = 3
        /\ KsEventsOf(scope)[1].data.reason = "again"
        /\ KsEventsOf(scope)[2].data.previousReason = "again"
        /\ KsEventsOf(scope)[3].data.reason = "stop"
        /\ isActive(killSwitch, scope)

-----------------------------------------------------------------------------
(* Further properties of tenant-scoped handles                              *)

\* C40: an evaluate call through a tenant's handle is decided under the
\* orchestrator's inline policy of that moment as long as neither setPolicy nor
\* clearPolicy has been called through the handle, and under the handle's own
\* policy (or, after its clearPolicy, the store's) from then on, whatever the
\* orchestrator's policy is
C40_ScopedFollowsParentUntilSet ==
    [][ \A c \in CallIds :
           (calls[c].pc = "idle" /\ calls'[c].pc # "idle" /\ calls'[c].via # NoString) =>
              IF (IF tenancy.policy[calls'[c].via].own
                  THEN tenancy.policy[calls'[c].via].policy ELSE inlinePolicy) = NoPolicy
              THEN calls'[c].askedPolicy /\ ~calls'[c].engineInvoked
              ELSE /\ calls'[c].engineInvoked /\ ~calls'[c].askedPolicy
                   /\ calls'[c].engineResult =
                         engineResultOf(engineEvaluate(calls'[c].request,
                            IF tenancy.policy[calls'[c].via].own
                            THEN tenancy.policy[calls'[c].via].policy ELSE inlinePolicy)) ]_vars

\* two calls through t1's handle, which has no policy of its own: the first
\* while the orchestrator had no inline policy, the second after the
\* orchestrator's setPolicy
C40_Witness ==
    /\ ~tenancy.policy["t1"].own
    /\ tenancy.lastSet = [op |-> "setPolicy", via |-> NoString]
    /\ calls[1].pc = "done" /\ calls[1].via = "t1" /\ calls[1].request.tool = "x"
    /\ calls[1].askedPolicy /\ calls[1].result.allowed
    /\ calls[2].pc = "done" /\ calls[2].via = "t1" /\ calls[2].request.tool = "x"
    /\ ~calls[2].askedPolicy /\ calls[2].result.reason = "Forbidden"


-----------------------------------------------------------------------------
(* Further properties of the event emitter                                 *)

\* C31: an async listener that has not finished when the 100 ms timer fires is
\* abandoned, not cancelled: the step in which the timer wins logs exactly one
\* warning that names the event type and leaves the listener's promise
\* pending, and it touches no queued listener, no registration, no emission
\* and no other race; afterwards the race stays timed out and the late
\* completion of the listener is logged nowhere and changes nothing else
C31_TimedOutListenerAbandoned ==
    [][\A i \in 1..Len(bus.races) :
         /\ (bus.races[i].state = "racing" /\ bus'.races[i].state = "timedout") =>
               /\ bus'.warnings =
                      Append(bus.warnings,
                             Warning("failed or timed out",
                                     bus.emissions[bus.races[i].emission].type,
                                     bus.races[i].listener))
               /\ bus'.races[i].promise = "pending"
               /\ bus'.queue = bus.queue
               /\ bus'.listeners = bus.listeners
               /\ bus'.invoked = bus.invoked
               /\ bus'.emissions = bus.emissions
               /\ \A j \in 1..Len(bus.races) : j # i => bus'.races[j] = bus.races[j]
         /\ bus.races[i].state = "timedout" =>
               /\ bus'.races[i].state = "timedout"
               /\ bus'.races[i].promise # bus.races[i].promise =>
                     /\ bus.races[i].promise = "pending"
                     /\ bus'.warnings = bus.warnings
                     /\ bus'.queue = bus.queue
                     /\ bus'.listeners = bus.listeners
                     /\ bus'.invoked = bus.invoked
                     /\ bus'.emissions = bus.emissions
      ]_vars

\* an abandoned listener has rejected after its timeout, a later emission has
\* been delivered, and the only race warning is the one of the timeout
C31_Witness ==
    /\ Len(bus.races) >= 1
    /\ bus.races[1].state = "timedout"
    /\ bus.races[1].promise = "rejected"
    /\ bus.races[1].emission = 1
    /\ Len(bus.emissions) = 2
    /\ bus.queue = <<>>
    /\ \E k \in 1..Len(bus.invoked) : bus.invoked[k].emission = 2
    /\ Len(SelectSeq(bus.warnings, LAMBDA w : w.kind = "failed or timed out")) = 1


\* the resolver calls one emit or emitEvent step makes
ResolverCallsOfStep == bus'.resolverCalls - bus.resolverCalls

\* the latest call handed the resolver's trace id to a listener of the type
DeliversTo(type) == IF type = NoString THEN FALSE ELSE bus.listeners[type] # <<>>

\* C32: a configured trace-id resolver is invoked exactly once by every emit
\* call that has a valid type and at least one listener registered for it,
\* not at all by an emit call that delivers nothing, never by emitEvent, and
\* by no other operation of the emitter
C32_ResolverOncePerDeliveringEmit ==
    [][IF bus'.emits = bus.emits + 1
       THEN ResolverCallsOfStep =
               IF /\ bus'.last.op = "emit"
                  /\ bus.resolver # "none"
                  /\ DeliversTo(bus'.last.type)
               THEN 1 ELSE 0
       ELSE ResolverCallsOfStep = 0
      ]_vars

\* a resolver has been asked once by an emit call that reached a listener
\* with the resolved trace id, and the emitEvent call after it did not ask
C32_Witness ==
    /\ bus.resolver = "returns"
    /\ bus.resolverCalls = 1
    /\ bus.emits = 2
    /\ bus.last.op = "emitEvent"
    /\ Len(bus.emissions) = 2
    /\ bus.emissions[1].event.traceId = ResolverTraceId
    /\ bus.emissions[1].listeners # <<>>
    /\ bus.emissions[2].listeners # <<>>
    /\ bus.queue = <<>>

\* the statement as written: once per emit call whenever a resolver is
\* configured (refuted by an emit call for a type without listeners)
C32_ResolverOncePerEmit ==
    [][(bus'.emits = bus.emits + 1 /\ bus.resolver # "none") =>
          ResolverCallsOfStep = IF bus'.last.op = "emit" THEN 1 ELSE 0
      ]_vars


-----------------------------------------------------------------------------
(* Properties of the policy store                                          *)

\* the version history of a name, oldest first, as (name, version, rules)
HistoryOf(n) ==
    [i \in 1..Len(SelectSeq(store.versions, LAMBDA v : v.policyName = n)) |->
        [policyName |-> n,
         version |-> SelectSeq(store.versions, LAMBDA v : v.policyName = n)[i].version,
         rules |-> SelectSeq(store.versions, LAMBDA v : v.policyName = n)[i].rules]]

\* the rows of a name that writes have replaced, oldest first
OverwrittenOf(n) == SelectSeq(store.overwritten, LAMBDA o : o.policyName = n)

\* C33: after any sequence of writes to one name the version history of the
\* name holds exactly the states that were overwritten, each with the version
\* string and rules the policy had immediately before the write that replaced
\* it; the first write of a name records no version
C33_HistoryIsOverwrittenStates ==
    \A n \in PolicyNames :
       /\ HistoryOf(n) = OverwrittenOf(n)
       /\ ~store.policies[n].present => HistoryOf(n) = <<>>

\* C34: the snapshot of the old policy and the upsert of the new one take
\* effect together or not at all: a write whose statement fails leaves the
\* policies table and the version history as they were
C34_WriteIsAtomic ==
    [][(store'.ops = store.ops + 1 /\ store'.last.threw = "SqliteError") =>
          /\ store'.versions = store.versions
          /\ store'.policies = store.policies
      ]_vars

====
